---- MODULE Spec2Model ----
(***************************************************************************)
(* A model of the eBPF+ runtime verifier: the CFG builders of main.py      *)
(* (get_blocks_tree, get_blocks_scan), the plain path explorer of dfs.py   *)
(* (dfs_blocks) and the memory-aware explorer of mem_access.py             *)
(* (dfs_blocks_with_mem) with its symbolic scan, its shared solver and     *)
(* its bounded-window cache model.                                         *)
(***************************************************************************)
EXTENDS Integers, Sequences, FiniteSets, TLC

(***************************************************************************)
(* Bounds of the model.                                                    *)
(***************************************************************************)
\* Integer values tried for each free solver symbol are 0..DomMax.
DomMax == 5
\* Python's recursion limit, scaled down: deepest chain of nested dfs calls.
RecLimit == 4
\* Longest program of the generated family the CFG builders are run on.
MaxLen == 3

(***************************************************************************)
(* bpf.py: opcode fields.                                                  *)
(***************************************************************************)
BpfClass_LD == 0
BpfClass_LDX == 1
BpfClass_ST == 2
BpfClass_STX == 3
BpfClass_ALU == 4
BpfClass_JMP == 5
BpfClass_JMP32 == 6
BpfClass_ALU64 == 7

BpfS_K == 0
BpfS_X == 8

ALU_ADD == 0 * 16
ALU_MUL == 2 * 16
ALU_MOV == 11 * 16

JMP_JA == 0 * 16
JMP_JEQ == 1 * 16
JMP_JGT == 2 * 16
JMP_JGE == 3 * 16
JMP_JSET == 4 * 16
JMP_JNE == 5 * 16
JMP_JSGT == 6 * 16
JMP_JSGE == 7 * 16
JMP_CALL == 8 * 16
JMP_EXIT == 9 * 16
JMP_JLT == 10 * 16
JMP_JLE == 11 * 16
JMP_JSLT == 12 * 16
JMP_JSLE == 13 * 16

BpfSize_W == 0 * 8
BpfMode_MEM == 3 * 32
BpfMode_FMEM == 5 * 32

\* Instruction.get_class / BpfInstruction.get_class: the low three bits.
get_class(opcode) == opcode % 8

(***************************************************************************)
(* The opcode catalog.  A latency of None is NoneLat; a lookup that finds  *)
(* nothing (dict.get returning None) is NoOpInfo.                          *)
(***************************************************************************)
NoneLat == 0 - 1
None == NoneLat
OpInfo(name, latency) == [name |-> name, latency |-> latency]
NoOpInfo == [name |-> "<none>", latency |-> NoneLat]

BPF_INFO ==
       0 :> OpInfo("LD_IMM_W", 4)
    @@ 1 :> OpInfo("LDX_IMM_W", None)
    @@ 2 :> OpInfo("ST_IMM_W", None)
    @@ 3 :> OpInfo("STX_IMM_W", None)
    @@ 4 :> OpInfo("ADD_K", 5)
    @@ 5 :> OpInfo("JA", 2)
    @@ 6 :> OpInfo("JA", 2)
    @@ 7 :> OpInfo("ADD64_K", 5)
    @@ 8 :> OpInfo("LD_IMM_H", 4)
    @@ 9 :> OpInfo("LDX_IMM_H", None)
    @@ 10 :> OpInfo("ST_IMM_H", None)
    @@ 11 :> OpInfo("STX_IMM_H", None)
    @@ 12 :> OpInfo("ADD_X", 1)
    @@ 15 :> OpInfo("ADD64_X", 1)
    @@ 16 :> OpInfo("LD_IMM_B", 4)
    @@ 17 :> OpInfo("LDX_IMM_B", None)
    @@ 18 :> OpInfo("ST_IMM_B", None)
    @@ 19 :> OpInfo("STX_IMM_B", None)
    @@ 20 :> OpInfo("SUB_K", 5)
    @@ 21 :> OpInfo("JEQ_K", 7)
    @@ 22 :> OpInfo("JEQ32_K", 7)
    @@ 23 :> OpInfo("SUB64_K", 5)
    @@ 24 :> OpInfo("LDDW", 4)
    @@ 25 :> OpInfo("LDX_IMM_DW", None)
    @@ 26 :> OpInfo("ST_IMM_DW", None)
    @@ 27 :> OpInfo("STX_IMM_DW", None)
    @@ 28 :> OpInfo("SUB_X", 1)
    @@ 29 :> OpInfo("JEQ_X", 3)
    @@ 30 :> OpInfo("JEQ32_X", 3)
    @@ 31 :> OpInfo("SUB64_X", 1)
    @@ 32 :> OpInfo("LD_ABS_W", None)
    @@ 33 :> OpInfo("LDX_ABS_W", None)
    @@ 34 :> OpInfo("ST_ABS_W", 0)
    @@ 35 :> OpInfo("STX_ABS_W", None)
    @@ 36 :> OpInfo("MUL_K", 14)
    @@ 37 :> OpInfo("JGT_K", 7)
    @@ 38 :> OpInfo("JGT32_K", 7)
    @@ 39 :> OpInfo("MUL64_K", 14)
    @@ 40 :> OpInfo("LD_ABS_H", None)
    @@ 41 :> OpInfo("LDX_ABS_H", None)
    @@ 42 :> OpInfo("ST_ABS_H", 0)
    @@ 43 :> OpInfo("STX_ABS_H", None)
    @@ 44 :> OpInfo("MUL_X", 10)
    @@ 45 :> OpInfo("JGT_X", 3)
    @@ 46 :> OpInfo("JGT32_X", 3)
    @@ 47 :> OpInfo("MUL64_X", 10)
    @@ 48 :> OpInfo("LD_ABS_B", None)
    @@ 49 :> OpInfo("LDX_ABS_B", None)
    @@ 50 :> OpInfo("ST_ABS_B", 0)
    @@ 51 :> OpInfo("STX_ABS_B", None)
    @@ 52 :> OpInfo("DIV_K", 38)
    @@ 53 :> OpInfo("JGE_K", 7)
    @@ 54 :> OpInfo("JGE32_K", 7)
    @@ 55 :> OpInfo("DIV64_K", 38)
    @@ 56 :> OpInfo("LD_ABS_DW", None)
    @@ 57 :> OpInfo("LDX_ABS_DW", None)
    @@ 58 :> OpInfo("ST_ABS_DW", 0)
    @@ 59 :> OpInfo("STX_ABS_DW", None)
    @@ 60 :> OpInfo("DIV_X", 34)
    @@ 61 :> OpInfo("JGE_X", 3)
    @@ 62 :> OpInfo("JGE32_X", 3)
    @@ 63 :> OpInfo("DIV64_X", 34)
    @@ 64 :> OpInfo("LD_IND_W", None)
    @@ 65 :> OpInfo("LDX_IND_W", None)
    @@ 66 :> OpInfo("ST_IND_W", 0)
    @@ 67 :> OpInfo("STX_IND_W", None)
    @@ 68 :> OpInfo("OR_K", 5)
    @@ 69 :> OpInfo("JSET_K", 8)
    @@ 70 :> OpInfo("JSET32_K", 8)
    @@ 71 :> OpInfo("OR64_K", 5)
    @@ 72 :> OpInfo("LD_IND_H", None)
    @@ 73 :> OpInfo("LDX_IND_H", None)
    @@ 74 :> OpInfo("ST_IND_H", 0)
    @@ 75 :> OpInfo("STX_IND_H", None)
    @@ 76 :> OpInfo("OR_X", 1)
    @@ 77 :> OpInfo("JSET_X", 4)
    @@ 78 :> OpInfo("JSET32_X", 4)
    @@ 79 :> OpInfo("OR64_X", 1)
    @@ 80 :> OpInfo("LD_IND_B", None)
    @@ 81 :> OpInfo("LDX_IND_B", None)
    @@ 82 :> OpInfo("ST_IND_B", 0)
    @@ 83 :> OpInfo("STX_IND_B", None)
    @@ 84 :> OpInfo("AND_K", 5)
    @@ 85 :> OpInfo("JNE_K", 7)
    @@ 86 :> OpInfo("JNE32_K", 7)
    @@ 87 :> OpInfo("AND64_K", 5)
    @@ 88 :> OpInfo("LD_IND_DW", None)
    @@ 89 :> OpInfo("LDX_IND_DW", None)
    @@ 90 :> OpInfo("ST_IND_DW", 0)
    @@ 91 :> OpInfo("STX_IND_DW", None)
    @@ 92 :> OpInfo("AND_X", 1)
    @@ 93 :> OpInfo("JNE_X", 3)
    @@ 94 :> OpInfo("JNE32_X", 3)
    @@ 95 :> OpInfo("AND64_X", 1)
    @@ 96 :> OpInfo("LD_MEM_W", None)
    @@ 97 :> OpInfo("LDX_W", 11)
    @@ 98 :> OpInfo("ST_W", 11)
    @@ 99 :> OpInfo("STX_W", 7)
    @@ 100 :> OpInfo("LSH_K", 1)
    @@ 101 :> OpInfo("JSGT_K", 7)
    @@ 102 :> OpInfo("JSGT32_K", 7)
    @@ 103 :> OpInfo("LSH64_K", 1)
    @@ 104 :> OpInfo("LD_MEM_H", None)
    @@ 105 :> OpInfo("LDX_H", 11)
    @@ 106 :> OpInfo("ST_H", 11)
    @@ 107 :> OpInfo("STX_H", 7)
    @@ 108 :> OpInfo("LSH_X", 1)
    @@ 109 :> OpInfo("JSGT_X", 3)
    @@ 110 :> OpInfo("JSGT32_X", 3)
    @@ 111 :> OpInfo("LSH64_X", 1)
    @@ 112 :> OpInfo("LD_MEM_B", None)
    @@ 113 :> OpInfo("LDX_B", 11)
    @@ 114 :> OpInfo("ST_B", 11)
    @@ 115 :> OpInfo("STX_B", 7)
    @@ 116 :> OpInfo("RSH_K", 1)
    @@ 117 :> OpInfo("JSGE_K", 7)
    @@ 118 :> OpInfo("JSGE32_K", 7)
    @@ 119 :> OpInfo("RSH64_K", 1)
    @@ 120 :> OpInfo("LD_MEM_DW", None)
    @@ 121 :> OpInfo("LDX_DW", 11)
    @@ 122 :> OpInfo("ST_DW", 11)
    @@ 123 :> OpInfo("STX_DW", 7)
    @@ 124 :> OpInfo("RSH_X", 1)
    @@ 125 :> OpInfo("JSGE_X", 3)
    @@ 126 :> OpInfo("JSGE32_X", 3)
    @@ 127 :> OpInfo("RSH64_X", 1)
    @@ 128 :> OpInfo("LD_MEMSX_W", None)
    @@ 129 :> OpInfo("LDX_MEMSX_W", 11)
    @@ 130 :> OpInfo("ST_MEMSX_W", 11)
    @@ 131 :> OpInfo("STX_MEMSX_W", 7)
    @@ 132 :> OpInfo("NEG", 0)
    @@ 133 :> OpInfo("CALL", None)
    @@ 135 :> OpInfo("NEG64", 0)
    @@ 136 :> OpInfo("LD_MEMSX_H", None)
    @@ 137 :> OpInfo("LDX_MEMSX_H", 11)
    @@ 138 :> OpInfo("ST_MEMSX_H", 11)
    @@ 139 :> OpInfo("STX_MEMSX_H", 7)
    @@ 144 :> OpInfo("LD_MEMSX_B", None)
    @@ 145 :> OpInfo("LDX_MEMSX_B", 11)
    @@ 146 :> OpInfo("ST_MEMSX_B", 11)
    @@ 147 :> OpInfo("STX_MEMSX_B", 7)
    @@ 148 :> OpInfo("MOD_K", 38)
    @@ 149 :> OpInfo("EXIT", 2)
    @@ 151 :> OpInfo("MOD64_K", 38)
    @@ 152 :> OpInfo("LD_MEMSX_DW", None)
    @@ 153 :> OpInfo("LDX_MEMSX_DW", 11)
    @@ 154 :> OpInfo("ST_MEMSX_DW", 11)
    @@ 155 :> OpInfo("STX_MEMSX_DW", 7)
    @@ 156 :> OpInfo("MOD_X", 34)
    @@ 159 :> OpInfo("MOD64_X", 34)
    @@ 164 :> OpInfo("XOR_K", 5)
    @@ 165 :> OpInfo("JLT_K", 7)
    @@ 166 :> OpInfo("JLT32_K", 7)
    @@ 167 :> OpInfo("XOR64_K", 5)
    @@ 172 :> OpInfo("XOR_X", 1)
    @@ 173 :> OpInfo("JLT_X", 3)
    @@ 174 :> OpInfo("JLT32_X", 3)
    @@ 175 :> OpInfo("XOR64_X", 1)
    @@ 180 :> OpInfo("MOV_K", 4)
    @@ 181 :> OpInfo("JLE_K", 7)
    @@ 182 :> OpInfo("JLE32_K", 7)
    @@ 183 :> OpInfo("MOV64_K", 4)
    @@ 188 :> OpInfo("MOV_X", 4)
    @@ 189 :> OpInfo("JLE_X", 3)
    @@ 190 :> OpInfo("JLE32_X", 3)
    @@ 191 :> OpInfo("MOV64_X", 4)
    @@ 195 :> OpInfo("ATOMIC_ADD_W", 8)
    @@ 196 :> OpInfo("ARSH_K", 1)
    @@ 197 :> OpInfo("JSLT_K", 7)
    @@ 198 :> OpInfo("JSLT32_K", 7)
    @@ 199 :> OpInfo("ARSH64_K", 1)
    @@ 204 :> OpInfo("ARSH_X", 1)
    @@ 205 :> OpInfo("JSLT_X", 3)
    @@ 206 :> OpInfo("JSLT32_X", 3)
    @@ 207 :> OpInfo("ARSH64_X", 1)
    @@ 212 :> OpInfo("END", None)
    @@ 213 :> OpInfo("JSLE_K", 7)
    @@ 214 :> OpInfo("JSLE32_K", 7)
    @@ 215 :> OpInfo("END64", None)
    @@ 219 :> OpInfo("ATOMIC_ADD_DW", 8)
    @@ 221 :> OpInfo("JSLE_X", 3)
    @@ 222 :> OpInfo("JSLE32_X", 3)
    @@ 451 :> OpInfo("ATOMIC_AND_W", 8)
    @@ 475 :> OpInfo("ATOMIC_AND_DW", 8)
    @@ 707 :> OpInfo("ATOMIC_OR_W", 8)
    @@ 731 :> OpInfo("ATOMIC_OR_DW", 8)
    @@ 963 :> OpInfo("ATOMIC_XOR_W", 8)
    @@ 987 :> OpInfo("ATOMIC_XOR_DW", 8)
    @@ 3779 :> OpInfo("ATOMIC_XCHG_W", 8)
    @@ 3803 :> OpInfo("ATOMIC_XCHG_DW", 8)
    @@ 4035 :> OpInfo("ATOMIC_CMPXCHG_W", 8)
    @@ 4059 :> OpInfo("ATOMIC_CMPXCHG_DW", 8)
    @@ 4291 :> OpInfo("ATOMIC_ADD_FETCH_W", 8)
    @@ 4315 :> OpInfo("ATOMIC_ADD_FETCH_DW", 8)
    @@ 4547 :> OpInfo("ATOMIC_AND_FETCH_W", 8)
    @@ 4571 :> OpInfo("ATOMIC_AND_FETCH_DW", 8)
    @@ 4803 :> OpInfo("ATOMIC_OR_FETCH_W", 8)
    @@ 4827 :> OpInfo("ATOMIC_OR_FETCH_DW", 8)
    @@ 5059 :> OpInfo("ATOMIC_XOR_FETCH_W", 8)
    @@ 5083 :> OpInfo("ATOMIC_XOR_FETCH_DW", 8)

BPF_INFO_FPU ==
       4 :> OpInfo("FADD_K", 12)
    @@ 7 :> OpInfo("FADD64_K", 14)
    @@ 12 :> OpInfo("FADD_X", 5)
    @@ 15 :> OpInfo("FADD64_X", 7)
    @@ 20 :> OpInfo("FSUB_K", 12)
    @@ 21 :> OpInfo("JFEQ_K", 10)
    @@ 22 :> OpInfo("JFEQ32_K", 10)
    @@ 23 :> OpInfo("FSUB64_K", 14)
    @@ 28 :> OpInfo("FSUB_X", 5)
    @@ 29 :> OpInfo("JFEQ_X", 3)
    @@ 30 :> OpInfo("JFEQ32_X", 3)
    @@ 31 :> OpInfo("FSUB64_X", 7)
    @@ 36 :> OpInfo("FMUL_K", 12)
    @@ 37 :> OpInfo("JFOGT_K", 10)
    @@ 38 :> OpInfo("JFOGT32_K", 10)
    @@ 39 :> OpInfo("FMUL64_K", 14)
    @@ 44 :> OpInfo("FMUL_X", 5)
    @@ 45 :> OpInfo("JFOGT_X", 3)
    @@ 46 :> OpInfo("JFOGT32_X", 3)
    @@ 47 :> OpInfo("FMUL64_X", 7)
    @@ 52 :> OpInfo("FDIV_K", 27)
    @@ 53 :> OpInfo("JFOGE_K", 10)
    @@ 54 :> OpInfo("JFOGE32_K", 10)
    @@ 55 :> OpInfo("FDIV64_K", 27)
    @@ 60 :> OpInfo("FDIV_X", 20)
    @@ 61 :> OpInfo("JFOGE_X", 3)
    @@ 62 :> OpInfo("JFOGE32_X", 3)
    @@ 63 :> OpInfo("FDIV64_X", 20)
    @@ 85 :> OpInfo("JFNE_K", 10)
    @@ 86 :> OpInfo("JFNE32_K", 10)
    @@ 93 :> OpInfo("JFNE_X", 3)
    @@ 94 :> OpInfo("JFNE32_X", 3)
    @@ 101 :> OpInfo("JFUGT_K", 15)
    @@ 102 :> OpInfo("JFUGT32_K", 15)
    @@ 109 :> OpInfo("JFUGT_X", 8)
    @@ 110 :> OpInfo("JFUGT32_X", 8)
    @@ 117 :> OpInfo("JFUGE_K", 15)
    @@ 118 :> OpInfo("JFUGE32_K", 15)
    @@ 125 :> OpInfo("JFUGE_X", 8)
    @@ 126 :> OpInfo("JFUGE32_X", 8)
    @@ 132 :> OpInfo("FNEG_K", 3)
    @@ 135 :> OpInfo("FNEG64_K", 3)
    @@ 140 :> OpInfo("FNEG_X", 3)
    @@ 143 :> OpInfo("FNEG64_X", 3)
    @@ 165 :> OpInfo("JFOLT_K", 10)
    @@ 166 :> OpInfo("JFOLT32_K", 10)
    @@ 173 :> OpInfo("JFOLT_X", 3)
    @@ 174 :> OpInfo("JFOLT32_X", 3)
    @@ 180 :> OpInfo("FMOV_K", 7)
    @@ 181 :> OpInfo("JFOLE_K", 10)
    @@ 182 :> OpInfo("JFOLE32_K", 10)
    @@ 183 :> OpInfo("FMOV64_K", 7)
    @@ 188 :> OpInfo("FMOV_X", 7)
    @@ 189 :> OpInfo("JFOLE_X", 3)
    @@ 190 :> OpInfo("JFOLE32_X", 3)
    @@ 191 :> OpInfo("FMOV64_X", 7)
    @@ 197 :> OpInfo("JFULT_K", 15)
    @@ 198 :> OpInfo("JFULT32_K", 15)
    @@ 205 :> OpInfo("JFULT_X", 8)
    @@ 206 :> OpInfo("JFULT32_X", 8)
    @@ 213 :> OpInfo("JFULE_K", 15)
    @@ 214 :> OpInfo("JFULE32_K", 15)
    @@ 221 :> OpInfo("JFULE_X", 8)
    @@ 222 :> OpInfo("JFULE_32X", 8)

LoadMemNames ==
    {"LDX_B", "LDX_DW", "LDX_H", "LDX_MEMSX_B", "LDX_MEMSX_DW", "LDX_MEMSX_H",
     "LDX_MEMSX_W", "LDX_W", "LD_MEMSX_B", "LD_MEMSX_DW", "LD_MEMSX_H",
     "LD_MEMSX_W", "LD_MEM_B", "LD_MEM_DW", "LD_MEM_H", "LD_MEM_W"}

StoreMemNames ==
    {"STX_B", "STX_DW", "STX_H", "STX_MEMSX_B", "STX_MEMSX_DW", "STX_MEMSX_H",
     "STX_MEMSX_W", "STX_W", "ST_B", "ST_DW", "ST_H", "ST_MEMSX_B",
     "ST_MEMSX_DW", "ST_MEMSX_H", "ST_MEMSX_W", "ST_W"}

FpuMemNames ==
    {}

\* _guess_size_from_name: the names ending in _DW, _H or _B.
SizeByName ==
    "ATOMIC_ADD_DW" :> 8 @@ "ATOMIC_ADD_FETCH_DW" :> 8
    @@ "ATOMIC_AND_DW" :> 8 @@ "ATOMIC_AND_FETCH_DW" :> 8
    @@ "ATOMIC_CMPXCHG_DW" :> 8 @@ "ATOMIC_OR_DW" :> 8
    @@ "ATOMIC_OR_FETCH_DW" :> 8 @@ "ATOMIC_XCHG_DW" :> 8
    @@ "ATOMIC_XOR_DW" :> 8 @@ "ATOMIC_XOR_FETCH_DW" :> 8
    @@ "LDX_ABS_B" :> 1 @@ "LDX_ABS_DW" :> 8 @@ "LDX_ABS_H" :> 2
    @@ "LDX_B" :> 1 @@ "LDX_DW" :> 8 @@ "LDX_H" :> 2 @@ "LDX_IMM_B" :> 1
    @@ "LDX_IMM_DW" :> 8 @@ "LDX_IMM_H" :> 2 @@ "LDX_IND_B" :> 1
    @@ "LDX_IND_DW" :> 8 @@ "LDX_IND_H" :> 2 @@ "LDX_MEMSX_B" :> 1
    @@ "LDX_MEMSX_DW" :> 8 @@ "LDX_MEMSX_H" :> 2 @@ "LD_ABS_B" :> 1
    @@ "LD_ABS_DW" :> 8 @@ "LD_ABS_H" :> 2 @@ "LD_IMM_B" :> 1
    @@ "LD_IMM_H" :> 2 @@ "LD_IND_B" :> 1 @@ "LD_IND_DW" :> 8
    @@ "LD_IND_H" :> 2 @@ "LD_MEMSX_B" :> 1 @@ "LD_MEMSX_DW" :> 8
    @@ "LD_MEMSX_H" :> 2 @@ "LD_MEM_B" :> 1 @@ "LD_MEM_DW" :> 8
    @@ "LD_MEM_H" :> 2 @@ "STX_ABS_B" :> 1 @@ "STX_ABS_DW" :> 8
    @@ "STX_ABS_H" :> 2 @@ "STX_B" :> 1 @@ "STX_DW" :> 8 @@ "STX_H" :> 2
    @@ "STX_IMM_B" :> 1 @@ "STX_IMM_DW" :> 8 @@ "STX_IMM_H" :> 2
    @@ "STX_IND_B" :> 1 @@ "STX_IND_DW" :> 8 @@ "STX_IND_H" :> 2
    @@ "STX_MEMSX_B" :> 1 @@ "STX_MEMSX_DW" :> 8 @@ "STX_MEMSX_H" :> 2
    @@ "ST_ABS_B" :> 1 @@ "ST_ABS_DW" :> 8 @@ "ST_ABS_H" :> 2 @@ "ST_B" :> 1
    @@ "ST_DW" :> 8 @@ "ST_H" :> 2 @@ "ST_IMM_B" :> 1 @@ "ST_IMM_DW" :> 8
    @@ "ST_IMM_H" :> 2 @@ "ST_IND_B" :> 1 @@ "ST_IND_DW" :> 8
    @@ "ST_IND_H" :> 2 @@ "ST_MEMSX_B" :> 1 @@ "ST_MEMSX_DW" :> 8
    @@ "ST_MEMSX_H" :> 2

\* _branch_cond_z3: the comparison each conditional's name stands for, and
\* the names whose right operand is the immediate (suffix K).
CmpOps ==
    "JEQ32_K" :> "eq" @@ "JEQ32_X" :> "eq" @@ "JEQ_K" :> "eq"
    @@ "JEQ_X" :> "eq" @@ "JFEQ32_K" :> "eq" @@ "JFEQ32_X" :> "eq"
    @@ "JFEQ_K" :> "eq" @@ "JFEQ_X" :> "eq" @@ "JFNE32_K" :> "ne"
    @@ "JFNE32_X" :> "ne" @@ "JFNE_K" :> "ne" @@ "JFNE_X" :> "ne"
    @@ "JFOGE32_K" :> "ge" @@ "JFOGE32_X" :> "ge" @@ "JFOGE_K" :> "ge"
    @@ "JFOGE_X" :> "ge" @@ "JFOGT32_K" :> "gt" @@ "JFOGT32_X" :> "gt"
    @@ "JFOGT_K" :> "gt" @@ "JFOGT_X" :> "gt" @@ "JFOLE32_K" :> "le"
    @@ "JFOLE32_X" :> "le" @@ "JFOLE_K" :> "le" @@ "JFOLE_X" :> "le"
    @@ "JFOLT32_K" :> "lt" @@ "JFOLT32_X" :> "lt" @@ "JFOLT_K" :> "lt"
    @@ "JFOLT_X" :> "lt" @@ "JFUGE32_K" :> "ge" @@ "JFUGE32_X" :> "ge"
    @@ "JFUGE_K" :> "ge" @@ "JFUGE_X" :> "ge" @@ "JFUGT32_K" :> "gt"
    @@ "JFUGT32_X" :> "gt" @@ "JFUGT_K" :> "gt" @@ "JFUGT_X" :> "gt"
    @@ "JFULE32_K" :> "le" @@ "JFULE_K" :> "le" @@ "JFULE_X" :> "le"
    @@ "JFULT32_K" :> "lt" @@ "JFULT32_X" :> "lt" @@ "JFULT_K" :> "lt"
    @@ "JFULT_X" :> "lt" @@ "JGE32_K" :> "ge" @@ "JGE32_X" :> "ge"
    @@ "JGE_K" :> "ge" @@ "JGE_X" :> "ge" @@ "JGT32_K" :> "gt"
    @@ "JGT32_X" :> "gt" @@ "JGT_K" :> "gt" @@ "JGT_X" :> "gt"
    @@ "JLE32_K" :> "le" @@ "JLE32_X" :> "le" @@ "JLE_K" :> "le"
    @@ "JLE_X" :> "le" @@ "JLT32_K" :> "lt" @@ "JLT32_X" :> "lt"
    @@ "JLT_K" :> "lt" @@ "JLT_X" :> "lt" @@ "JNE32_K" :> "ne"
    @@ "JNE32_X" :> "ne" @@ "JNE_K" :> "ne" @@ "JNE_X" :> "ne"
    @@ "JSGE32_K" :> "ge" @@ "JSGE32_X" :> "ge" @@ "JSGE_K" :> "ge"
    @@ "JSGE_X" :> "ge" @@ "JSGT32_K" :> "gt" @@ "JSGT32_X" :> "gt"
    @@ "JSGT_K" :> "gt" @@ "JSGT_X" :> "gt" @@ "JSLE32_K" :> "le"
    @@ "JSLE32_X" :> "le" @@ "JSLE_K" :> "le" @@ "JSLE_X" :> "le"
    @@ "JSLT32_K" :> "lt" @@ "JSLT32_X" :> "lt" @@ "JSLT_K" :> "lt"
    @@ "JSLT_X" :> "lt"

KNames ==
    {"JEQ32_K", "JEQ_K", "JFEQ32_K", "JFEQ_K", "JFNE32_K", "JFNE_K",
     "JFOGE32_K", "JFOGE_K", "JFOGT32_K", "JFOGT_K", "JFOLE32_K", "JFOLE_K",
     "JFOLT32_K", "JFOLT_K", "JFUGE32_K", "JFUGE_K", "JFUGT32_K", "JFUGT_K",
     "JFULE32_K", "JFULE_K", "JFULT32_K", "JFULT_K", "JGE32_K", "JGE_K",
     "JGT32_K", "JGT_K", "JLE32_K", "JLE_K", "JLT32_K", "JLT_K", "JNE32_K",
     "JNE_K", "JSGE32_K", "JSGE_K", "JSGT32_K", "JSGT_K", "JSLE32_K",
     "JSLE_K", "JSLT32_K", "JSLT_K"}

\* _apply_alu_update_z3: the exact rule each opcode name has, the leading F
\* of an FPU ALU name dropped.
Z3Rules ==
    "ADD64_K" :> "add_k" @@ "ADD64_X" :> "add_x" @@ "ADD_K" :> "add_k"
    @@ "ADD_X" :> "add_x" @@ "FADD64_K" :> "add_k" @@ "FADD64_X" :> "add_x"
    @@ "FADD_K" :> "add_k" @@ "FADD_X" :> "add_x" @@ "FMOV64_K" :> "mov_k"
    @@ "FMOV64_X" :> "mov_x" @@ "FMOV_K" :> "mov_k" @@ "FMOV_X" :> "mov_x"
    @@ "FMUL64_K" :> "mul_k" @@ "FMUL64_X" :> "mul_x" @@ "FMUL_K" :> "mul_k"
    @@ "FMUL_X" :> "mul_x" @@ "FSUB64_K" :> "sub_k" @@ "FSUB64_X" :> "sub_x"
    @@ "FSUB_K" :> "sub_k" @@ "FSUB_X" :> "sub_x" @@ "LDDW" :> "ld_imm"
    @@ "LDX_IMM_B" :> "ld_imm" @@ "LDX_IMM_DW" :> "ld_imm"
    @@ "LDX_IMM_H" :> "ld_imm" @@ "LDX_IMM_W" :> "ld_imm"
    @@ "LD_IMM_B" :> "ld_imm" @@ "LD_IMM_H" :> "ld_imm"
    @@ "LD_IMM_W" :> "ld_imm" @@ "MOV64_K" :> "mov_k"
    @@ "MOV64_X" :> "mov_x" @@ "MOV_K" :> "mov_k" @@ "MOV_X" :> "mov_x"
    @@ "MUL64_K" :> "mul_k" @@ "MUL64_X" :> "mul_x" @@ "MUL_K" :> "mul_k"
    @@ "MUL_X" :> "mul_x" @@ "NEG" :> "neg" @@ "NEG64" :> "neg"
    @@ "SUB64_K" :> "sub_k" @@ "SUB64_X" :> "sub_x" @@ "SUB_K" :> "sub_k"
    @@ "SUB_X" :> "sub_x"

SeHavocNames ==
    {"AND64_K", "AND64_X", "AND_K", "AND_X", "ARSH64_K", "ARSH64_X", "ARSH_K",
     "ARSH_X", "DIV64_K", "DIV64_X", "DIV_K", "DIV_X", "LSH64_K", "LSH64_X",
     "LSH_K", "LSH_X", "MOD64_K", "MOD64_X", "MOD_K", "MOD_X", "MUL64_K",
     "MUL64_X", "MUL_K", "MUL_X", "NEG", "NEG64", "OR64_K", "OR64_X", "OR_K",
     "OR_X", "RSH64_K", "RSH64_X", "RSH_K", "RSH_X", "XOR64_K", "XOR64_X",
     "XOR_K", "XOR_X"}

Get(table, key) == IF key \in DOMAIN table THEN table[key] ELSE NoOpInfo

(***************************************************************************)
(* main.py: decoded instructions and the recursive CFG builder.            *)
(***************************************************************************)
\* A decoded instruction: the fields Instruction.__init__ extracts.
Instruction(opcode, dst, src, off, imm) ==
    [opcode |-> opcode, dst |-> dst, src |-> src, off |-> off, imm |-> imm]

\* The fields of one 8-byte word, given as its bytes in file order (the word
\* is little endian, so byte k holds bits 8(k-1) .. 8k-1): opcode is the
\* low byte, dst and src the two halves of the next one, off the next two
\* bytes and imm the last four.  off and imm are made signed as the code
\* does it; the 32-bit immediate is put together from its two halves so
\* that no intermediate value leaves the 32-bit integers.  get_off_unsigned
\* is _get_off without its "make it signed" step.  get_opcode_be
\* takes the opcode from the other end of the word.
get_opcode_be(w) == w[8]
get_opcode(w) == w[1]
get_dst(w) == w[2] % 16
get_src(w) == w[2] \div 16
get_off_unsigned(w) == w[3] + 256 * w[4]
get_off(w) ==
    LET org_off == w[3] + 256 * w[4]
    IN  IF org_off > 32767 THEN org_off - 65535 - 1 ELSE org_off
get_imm(w) ==
    LET lo == w[5] + 256 * w[6]
        hi == w[7] + 256 * w[8]
    IN  IF hi > 32767 THEN (hi - 65535 - 1) * 65536 + lo
        ELSE hi * 65536 + lo

\* BpfInstruction.is_wide_instruction: the class is a load or store class
\* and the mode, the upper three bits of the opcode, is IMM (0).
is_wide_instruction(opcode) ==
    /\ get_class(opcode)
          \in {BpfClass_LD, BpfClass_LDX, BpfClass_ST, BpfClass_STX}
    /\ (opcode \div 32) * 32 = 0

\* bpf.py, the 16-byte instructions.  A 64-bit integer is kept as its four
\* 16-bit limbs, least significant first: _to_int unpacks 8 bytes in
\* little-endian order; a word of another length makes struct.unpack raise.
to_int(bytes) == [i \in 1..4 |-> bytes[2 * i - 1] + 256 * bytes[2 * i]]

\* x & y and x >> n, x << n on limbs (n a multiple of 16).
RECURSIVE BitAnd16(_, _, _)
BitAnd16(a, b, n) ==
    IF n = 0 THEN 0
    ELSE (a % 2) * (b % 2) + 2 * BitAnd16(a \div 2, b \div 2, n - 1)
BitAnd(x, y) == [i \in 1..4 |-> BitAnd16(x[i], y[i], 16)]
ShiftRight(x, n) ==
    [i \in 1..4 |-> IF i + n \div 16 <= 4 THEN x[i + n \div 16] ELSE 0]
ShiftLeft(x, n) ==
    [i \in 1..4 |-> IF i - n \div 16 >= 1 THEN x[i - n \div 16] ELSE 0]

\* Shift.RESERVED, Shift.NEXT_IMM, Mask.RESERVED, Mask.NEXT_IMM
Shift_RESERVED == 32
Shift_NEXT_IMM == 0
Mask_RESERVED == ShiftLeft(<<65535, 65535, 0, 0>>, Shift_RESERVED)
Mask_NEXT_IMM == ShiftLeft(<<65535, 65535, 0, 0>>, Shift_NEXT_IMM)

\* _get_reserved and _get_next_imm return `x & Mask >> Shift`; in Python
\* >> binds tighter than &, so the mask is shifted and the word is not.
get_reserved(next_instruction) ==
    BitAnd(to_int(next_instruction), ShiftRight(Mask_RESERVED, Shift_RESERVED))
get_next_imm(next_instruction) ==
    BitAnd(to_int(next_instruction), ShiftRight(Mask_NEXT_IMM, Shift_NEXT_IMM))

\* BpfInstruction(instruction), and the object after widen_instruction(more):
\* next_instruction is stored first, so it stays when a getter raises.
BpfInstruction(instruction) ==
    [instruction |-> instruction, next_instruction |-> <<>>,
     reserved |-> <<>>, next_imm |-> <<>>, raised |-> "none"]
widen_instruction(self, more) ==
    IF Len(more) # 8
    THEN [self EXCEPT !.next_instruction = more, !.raised = "struct.error"]
    ELSE [self EXCEPT !.next_instruction = more,
                      !.reserved = get_reserved(more),
                      !.next_imm = get_next_imm(more)]

\* Instruction(ins) for 8 bytes.
Decode(w) ==
    Instruction(get_opcode(w), get_dst(w), get_src(w), get_off(w), get_imm(w))

\* read_file: the file is read 8 bytes at a time until a read returns
\* nothing, and every chunk becomes one Instruction.  A last chunk of fewer
\* than 8 bytes makes struct.unpack raise; the instructions decoded so far
\* are then lost with the exception.
inst_size == 8
read_file(bytes) ==
    IF Len(bytes) % inst_size # 0
    THEN [err |-> "struct.error", instructions |-> <<>>]
    ELSE [err |-> "none",
          instructions |->
              [k \in 1..(Len(bytes) \div inst_size) |->
                  Decode(SubSeq(bytes, inst_size * (k - 1) + 1,
                                inst_size * k))]]

\* instructions[idx] with Python's indexing: idx counts from 0, a negative
\* idx counts from the end, and anything outside raises IndexError.
InRange(instructions, idx) ==
    idx < Len(instructions) /\ idx >= 0 - Len(instructions)
Fetch(instructions, idx) ==
    IF idx >= 0 THEN instructions[idx + 1]
    ELSE instructions[Len(instructions) + idx + 1]

OP_EXIT == JMP_EXIT + BpfS_K + BpfClass_JMP
OP_JA == JMP_JA + BpfS_K + BpfClass_JMP
OP_JA32 == JMP_JA + BpfS_K + BpfClass_JMP32
OP_CALL == JMP_CALL + BpfS_K + BpfClass_JMP

\* The opcodes of the "conditional jumps" case of get_blocks_tree.
CondCodes ==
    {JMP_JEQ, JMP_JGT, JMP_JGE, JMP_JSET, JMP_JNE, JMP_JSGT, JMP_JSGE,
     JMP_JLT, JMP_JLE, JMP_JSLT, JMP_JSLE}
CondOpcodes ==
    {c + s + k : c \in CondCodes, s \in {BpfS_K, BpfS_X},
                 k \in {BpfClass_JMP, BpfClass_JMP32}}

\* class Block: start, end and the list of successor blocks.  Blocks live
\* in a table; a block is named by its position in it (its identity).
Block(start_idx, end_idx, next) ==
    [start |-> start_idx, end |-> end_idx, next |-> next]

\* A raised exception / a built tree (its blocks in preorder, root first).
Raise(what) == [err |-> what, nodes |-> <<>>]
Built(nodes) == [err |-> "none", nodes |-> nodes]

\* The blocks of a subtree moved k places down the table.
Shift(nodes, k) ==
    [i \in 1..Len(nodes) |->
        [nodes[i] EXCEPT !.next = [j \in 1..Len(@) |-> @[j] + k]]]

\* block = Block(start_idx, idx); block.add(next) for one successor.
BlockWith1(start_idx, idx, sub) ==
    IF sub.err # "none" THEN sub
    ELSE Built(<<Block(start_idx, idx, <<2>>)>> \o Shift(sub.nodes, 1))

\* block.add(next_if); block.add(next_else): taken first, then fall-through
\* (BlockWith2Swapped adds them the other way round).
BlockWith2Swapped(start_idx, idx, sub_if, sub_else) ==
    IF sub_if.err # "none" THEN sub_if
    ELSE IF sub_else.err # "none" THEN sub_else
    ELSE Built(<<Block(start_idx, idx, <<2 + Len(sub_if.nodes), 2>>)>>
               \o Shift(sub_if.nodes, 1)
               \o Shift(sub_else.nodes, 1 + Len(sub_if.nodes)))
BlockWith2(start_idx, idx, sub_if, sub_else) ==
    IF sub_if.err # "none" THEN sub_if
    ELSE IF sub_else.err # "none" THEN sub_else
    ELSE Built(<<Block(start_idx, idx, <<2, 2 + Len(sub_if.nodes)>>)>>
               \o Shift(sub_if.nodes, 1)
               \o Shift(sub_else.nodes, 1 + Len(sub_if.nodes)))

RECURSIVE get_blocks_tree(_, _, _)
RECURSIVE TreeWalk(_, _, _, _)

\* The for loop of get_blocks_tree from instruction idx on.
TreeWalk(instructions, start_idx, idx, seen) ==
    IF idx >= Len(instructions) THEN Raise("unreachable")
    ELSE IF ~InRange(instructions, idx) THEN Raise("IndexError")
    ELSE
      LET ins == Fetch(instructions, idx) IN
      IF ins.opcode = OP_EXIT THEN
          Built(<<Block(start_idx, idx, <<>>)>>)
      ELSE IF ins.opcode = OP_JA THEN
          BlockWith1(start_idx, idx,
              get_blocks_tree(instructions, idx + ins.off + 1, seen))
      ELSE IF ins.opcode = OP_JA32 THEN
          BlockWith1(start_idx, idx,
              get_blocks_tree(instructions, idx + ins.imm + 1, seen))
      ELSE IF ins.opcode = OP_CALL THEN
          IF ins.src = 1 THEN
              BlockWith1(start_idx, idx,
                  get_blocks_tree(instructions, idx + ins.imm + 1, seen))
          ELSE \* src 0 and 2 `continue`; any other src matches no case
              TreeWalk(instructions, start_idx, idx + 1, seen)
      ELSE IF ins.opcode \in CondOpcodes THEN
          LET next_if ==
                  get_blocks_tree(instructions, idx + ins.off + 1, seen)
          IN  IF next_if.err # "none" THEN next_if
              ELSE BlockWith2(start_idx, idx, next_if,
                      get_blocks_tree(instructions, idx + 1, seen))
      ELSE IF get_class(ins.opcode) \in {BpfClass_JMP, BpfClass_JMP32} THEN
          Raise("couldn't catch opcode")
      ELSE TreeWalk(instructions, start_idx, idx + 1, seen)

\* get_blocks_tree_closing ends the chain with a one-instruction leaf where
\* get_blocks_tree raises on a start index met again.
get_blocks_tree_closing(instructions, start_idx, seen) ==
    IF start_idx \in seen THEN Built(<<Block(start_idx, start_idx, <<>>)>>)
    ELSE TreeWalk(instructions, start_idx, start_idx, seen \cup {start_idx})
get_blocks_tree(instructions, start_idx, seen) ==
    IF start_idx \in seen THEN Raise("detected loop")
    ELSE TreeWalk(instructions, start_idx, start_idx, seen \cup {start_idx})


(***************************************************************************)
(* main.py: the scanning CFG builder.                                      *)
(***************************************************************************)
\* sorted(list(S)) for a finite set of integers.
RECURSIVE Sorted(_)
Sorted(S) ==
    IF S = {} THEN <<>>
    ELSE LET m == CHOOSE x \in S : \A y \in S : x <= y
         IN  <<m>> \o Sorted(S \ {m})

\* zip(start, ends): pairs up to the shorter list.
Zip(a, b) ==
    [i \in 1..(IF Len(a) <= Len(b) THEN Len(a) ELSE Len(b)) |-> <<a[i], b[i]>>]

\* What one iteration of the loop of get_blocks_scan adds to start / ends.
ScanStartsAt(ins, idx) ==
    IF ins.opcode = OP_JA THEN {idx + ins.off + 1}
    ELSE IF ins.opcode = OP_JA32 THEN {idx + ins.imm + 1}
    ELSE IF ins.opcode = OP_CALL THEN
        {idx + 1} \cup (IF ins.src = 1 THEN {idx + ins.imm + 1} ELSE {})
    ELSE IF ins.opcode \in CondOpcodes THEN {idx + ins.off + 1, idx + 1}
    ELSE {}
ScanEndsAt(ins, idx) ==
    IF ins.opcode \in {OP_EXIT, OP_JA, OP_JA32, OP_CALL} \cup CondOpcodes
    THEN {idx} ELSE {}
ScanRaisesAt(ins) ==
    /\ ins.opcode \notin {OP_EXIT, OP_JA, OP_JA32, OP_CALL} \cup CondOpcodes
    /\ get_class(ins.opcode) \in {BpfClass_JMP, BpfClass_JMP32}

\* The loop runs over range(1, len(instructions)): index 0 is not looked at.
get_blocks_scan(instructions) ==
    LET idxs == 1..(Len(instructions) - 1)
        start == {0} \cup UNION {ScanStartsAt(Fetch(instructions, i), i) :
                                    i \in idxs}
        ends == UNION {ScanEndsAt(Fetch(instructions, i), i) : i \in idxs}
    IN  IF \E i \in idxs : ScanRaisesAt(Fetch(instructions, i))
        THEN [err |-> "couldn't catch opcode", blocks |-> <<>>]
        ELSE [err |-> "none", blocks |-> Zip(Sorted(start), Sorted(ends))]


(***************************************************************************)
(* The Z3 expressions the analyzer builds and the solver it shares.        *)
(* A term is an integer literal, a named Int constant, a sum, difference   *)
(* or product of two terms, a negation or an absolute value.  An assertion *)
(* compares two terms, possibly under Not.                                 *)
(***************************************************************************)
Term(k, name, n, args) == [k |-> k, name |-> name, n |-> n, args |-> args]
IntVal(n) == Term("int", "", n, <<>>)
IntSym(name) == Term("var", name, 0, <<>>)
Add(a, b) == Term("add", "", 0, <<a, b>>)
Sub(a, b) == Term("sub", "", 0, <<a, b>>)
Mul(a, b) == Term("mul", "", 0, <<a, b>>)
Neg(a) == Term("neg", "", 0, <<a>>)
Abs(a) == Term("abs", "", 0, <<a>>)

Cmp(op, a, b) == [op |-> op, a |-> a, b |-> b, neg |-> FALSE]
Not(c) == [c EXCEPT !.neg = ~@]

\* The names a term / an assertion mentions.
RECURSIVE VarsOfTerm(_)
VarsOfTerm(t) ==
    IF t.k = "var" THEN {t.name}
    ELSE UNION {VarsOfTerm(t.args[i]) : i \in 1..Len(t.args)}
VarsOf(c) == VarsOfTerm(c.a) \cup VarsOfTerm(c.b)

\* The assertions the solver holds: those of every scope, oldest first.
RECURSIVE Flatten(_)
Flatten(scopes) ==
    IF scopes = <<>> THEN <<>> ELSE Head(scopes) \o Flatten(Tail(scopes))

\* Assertion i of A gives a name its value: name == term, the name being
\* new at that point.  Such a name is eliminated instead of searched for.
Defines(A, i) ==
    /\ A[i].op = "eq" /\ ~A[i].neg /\ A[i].a.k = "var"
    /\ A[i].a.name \notin VarsOfTerm(A[i].b)
    /\ \A j \in 1..(i - 1) : A[i].a.name \notin VarsOf(A[j])
DefinedNames(A) == {A[i].a.name : i \in {j \in 1..Len(A) : Defines(A, j)}}
DefOf(A, name) ==
    A[CHOOSE i \in 1..Len(A) : Defines(A, i) /\ A[i].a.name = name].b

AbsInt(x) == IF x < 0 THEN 0 - x ELSE x

\* The value of a term under an assignment of the free names.
RECURSIVE Eval(_, _, _)
Eval(t, A, val) ==
    CASE t.k = "int" -> t.n
      [] t.k = "var" -> IF t.name \in DOMAIN val THEN val[t.name]
                        ELSE Eval(DefOf(A, t.name), A, val)
      [] t.k = "add" -> Eval(t.args[1], A, val) + Eval(t.args[2], A, val)
      [] t.k = "sub" -> Eval(t.args[1], A, val) - Eval(t.args[2], A, val)
      [] t.k = "mul" -> Eval(t.args[1], A, val) * Eval(t.args[2], A, val)
      [] t.k = "neg" -> 0 - Eval(t.args[1], A, val)
      [] t.k = "abs" -> AbsInt(Eval(t.args[1], A, val))

Holds(c, A, val) ==
    LET x == Eval(c.a, A, val)
        y == Eval(c.b, A, val)
        r == CASE c.op = "eq" -> x = y
               [] c.op = "ne" -> x # y
               [] c.op = "gt" -> x > y
               [] c.op = "ge" -> x >= y
               [] c.op = "lt" -> x < y
               [] c.op = "le" -> x <= y
    IN  r # c.neg

\* Whether the assertions have a model: every free name ranges over
\* 0..DomMax, every defined name takes the value of its definition.
Satisfiable(A) ==
    LET all == UNION {VarsOf(A[i]) : i \in 1..Len(A)}
        free == all \ DefinedNames(A)
    IN  \E val \in [free -> 0..DomMax] :
            \A i \in 1..Len(A) : Holds(A[i], A, val)

\* What Solver.check() can answer: the truth, or unknown (the solver gave up).
CheckAnswers(scopes) ==
    {IF Satisfiable(Flatten(scopes)) THEN "sat" ELSE "unsat", "unknown"}


(***************************************************************************)
(* dfs.py: costing a range of instructions.                                *)
(***************************************************************************)
\* The cycles one instruction adds: nothing for an opcode the table does
\* not hold, and nothing for a latency of None (or 0).  LatencyOfKForm
\* costs a register-operand instruction as its immediate-operand twin.
LatencyOfKForm(ins) ==
    LET op_info == Get(BPF_INFO, ins.opcode - ((ins.opcode % 16) - (ins.opcode % 8)))
    IN  IF op_info = NoOpInfo \/ op_info.latency = None THEN 0
        ELSE op_info.latency
InstrLatency(ins) ==
    LET op_info == Get(BPF_INFO, ins.opcode)
    IN  IF op_info = NoOpInfo \/ op_info.latency = None THEN 0
        ELSE op_info.latency

\* instr_to_runtime sums the cycles of instructions start..end;
\* RuntimeOfFirst stops after the first of them.
RuntimeOfFirst(instructions, start, end) ==
    IF start > end THEN 0 ELSE InstrLatency(Fetch(instructions, start))

RECURSIVE instr_to_runtime(_, _, _)
instr_to_runtime(instructions, start, end) ==
    IF start > end THEN 0
    ELSE InstrLatency(Fetch(instructions, start))
         + instr_to_runtime(instructions, start + 1, end)

(***************************************************************************)
(* mem_access.py: the light symbolic state and the per-instruction         *)
(* transfer functions.                                                     *)
(***************************************************************************)
DRAM_EXTRA_CYCLES == 87
PEEP_WINDOW == 5
NEAR_DELTA == 4

MEMORY_TYPES == {"ld", "st", "fldx", "fstx", "map"}
LOCALITY_TYPES == {"ld", "st", "fldx", "fstx"}

BPF_FUNC_map_lookup_elem == 1
BPF_FUNC_map_update_elem == 2
BPF_FUNC_map_delete_elem == 3

SymbolicAddr(base, offset) == [base |-> base, offset |-> offset]
NoAddr == SymbolicAddr("<none>", 0)
SymbolicVal(type, addr, const) == [type |-> type, addr |-> addr, const |-> const]
make_unknown == SymbolicVal("unknown", NoAddr, 0)
make_const(v) == SymbolicVal("const", NoAddr, v)
make_ptr(base, offset) == SymbolicVal("ptr", SymbolicAddr(base, offset), 0)

\* RegisterState.get / RegisterState.set on the regs dictionary.
RegGet(st, r) == IF r \in DOMAIN st THEN st[r] ELSE make_unknown
RegSet(st, r, v) == [x \in DOMAIN st \cup {r} |-> IF x = r THEN v ELSE st[x]]

\* RegisterState() with r10 the frame pointer.
init_state == [r \in 0..10 |-> IF r = 10 THEN make_ptr("fp", 0) ELSE make_unknown]

NoTerm == Term("none", "", 0, <<>>)
MemoryAccess(idx, type, addr, size, base_latency, dram_added, z3_addr) ==
    [idx |-> idx, type |-> type, addr |-> addr, size |-> size,
     base_latency |-> base_latency, dram_added |-> dram_added,
     z3_addr |-> z3_addr]

\* The FPU discriminator: bit 1 of the offset (ALU classes) or of the
\* immediate (jump classes other than CALL and EXIT), mode FMEM (memory).
Bit1(x) == ((x % 65536) \div 2) % 2
is_fpu_instr(ins) ==
    LET class == get_class(ins.opcode) IN
    IF class \in {BpfClass_ALU, BpfClass_ALU64} THEN Bit1(ins.off) = 1
    ELSE IF class \in {BpfClass_JMP, BpfClass_JMP32} THEN
        /\ (ins.opcode \div 16) * 16 \notin {JMP_CALL, JMP_EXIT}
        /\ Bit1(ins.imm) = 1
    ELSE (ins.opcode \div 32) * 32 = BpfMode_FMEM

opinfo_for(ins) ==
    IF is_fpu_instr(ins) THEN Get(BPF_INFO_FPU, ins.opcode)
    ELSE Get(BPF_INFO, ins.opcode)

guess_size_from_name(name) ==
    IF name \in DOMAIN SizeByName THEN SizeByName[name] ELSE 4

\* Int(f"R{reg}_I{idx}")
z3_reg_var(reg, idx) == IntSym("R" \o ToString(reg) \o "_I" \o ToString(idx))
\* z3_regs.get(reg, _z3_reg_var(reg, idx - 1))
reg_z3(z3_regs, reg, idx) ==
    IF reg \in DOMAIN z3_regs THEN z3_regs[reg] ELSE z3_reg_var(reg, idx - 1)
Z3Set(z3_regs, r, t) ==
    [x \in DOMAIN z3_regs \cup {r} |-> IF x = r THEN t ELSE z3_regs[x]]

\* _apply_alu_update: the register the instruction rewrites in the light
\* state, by opcode name; any other name leaves the state alone.
apply_alu_update(ins, opinfo, st) ==
    LET name == opinfo.name
        v == RegGet(st, ins.dst)
        vsrc == RegGet(st, ins.src)
        moved(sign, delta) ==
            IF v.type = "ptr"
            THEN make_ptr(v.addr.base, v.addr.offset + sign * delta)
            ELSE IF v.type = "const" THEN make_const(v.const + sign * delta)
            ELSE make_unknown
    IN  CASE name \in {"MOV_K", "MOV64_K"} -> RegSet(st, ins.dst, make_const(ins.imm))
          [] name \in {"MOV_X", "MOV64_X"} -> RegSet(st, ins.dst, vsrc)
          [] name \in {"ADD_K", "ADD64_K"} -> RegSet(st, ins.dst, moved(1, ins.imm))
          [] name \in {"SUB_K", "SUB64_K"} -> RegSet(st, ins.dst, moved(0 - 1, ins.imm))
          [] name \in {"ADD_X", "ADD64_X"} ->
                RegSet(st, ins.dst, IF vsrc.type = "const"
                                    THEN moved(1, vsrc.const) ELSE make_unknown)
          [] name \in {"SUB_X", "SUB64_X"} ->
                RegSet(st, ins.dst, IF vsrc.type = "const"
                                    THEN moved(0 - 1, vsrc.const) ELSE make_unknown)
          [] name \in SeHavocNames -> RegSet(st, ins.dst, make_unknown)
          [] OTHER -> st

\* _apply_alu_update_z3: the constraint the instruction adds to the solver,
\* if any.  With or without one, z3_regs[dst] becomes the new name
\* R{dst}_I{idx}: for every opcode without an exact rule (jumps, loads,
\* stores, calls, exits among them) the destination is havocked.
alu_constraint(idx, ins, opinfo, z3_regs) ==
    LET name == opinfo.name
        dst_var == z3_reg_var(ins.dst, idx)
        prev(reg) == reg_z3(z3_regs, reg, idx)
        rule == IF name \in DOMAIN Z3Rules THEN Z3Rules[name] ELSE "havoc"
    IN  CASE rule = "mov_k" -> <<Cmp("eq", dst_var, IntVal(ins.imm))>>
          [] rule = "mov_x" -> <<Cmp("eq", dst_var, prev(ins.src))>>
          [] rule = "add_k" ->
                <<Cmp("eq", dst_var, Add(prev(ins.dst), IntVal(ins.imm)))>>
          [] rule = "sub_k" ->
                <<Cmp("eq", dst_var, Sub(prev(ins.dst), IntVal(ins.imm)))>>
          [] rule = "add_x" ->
                <<Cmp("eq", dst_var, Add(prev(ins.dst), prev(ins.src)))>>
          [] rule = "sub_x" ->
                <<Cmp("eq", dst_var, Sub(prev(ins.dst), prev(ins.src)))>>
          [] rule = "neg" -> <<Cmp("eq", dst_var, Neg(prev(ins.dst)))>>
          [] rule = "mul_k" ->
                <<Cmp("eq", dst_var, Mul(prev(ins.dst), IntVal(ins.imm)))>>
          [] rule = "mul_x" ->
                <<Cmp("eq", dst_var, Mul(prev(ins.dst), prev(ins.src)))>>
          [] rule = "ld_imm" ->
                <<Cmp("eq", dst_var, IntSym("addr_" \o ToString(ins.imm)))>>
          [] OTHER -> <<>>
apply_alu_update_z3(idx, ins, opinfo, z3_regs) ==
    Z3Set(z3_regs, ins.dst, z3_reg_var(ins.dst, idx))


\* The address of a load, store or FPU memory access through base_reg: known
\* only when the light state holds a pointer in base_reg.
AccessThrough(idx, ins, typ, name, latency, base_reg, st, z3_regs) ==
    LET v == RegGet(st, base_reg)
        known == v.type = "ptr"
        addr == IF known THEN SymbolicAddr(v.addr.base, v.addr.offset + ins.off)
                ELSE NoAddr
        z3_addr == IF known
                   THEN Add(reg_z3(z3_regs, base_reg, idx), IntVal(ins.off))
                   ELSE NoTerm
    IN  MemoryAccess(idx, typ, addr, guess_size_from_name(name), latency, 0, z3_addr)

\* The name of the map a helper call works on, from what r1 holds.
MapBaseName(st) ==
    LET r1 == RegGet(st, 1)
    IN  IF r1.type = "ptr" THEN "map:" \o r1.addr.base ELSE "map:?"

\* _mem_access_from_instr: the accesses (none or one) the instruction makes,
\* with the light state and the Z3 register map as the call leaves them.
mem_access_from_instr(idx, ins, opinfo, st, z3_regs) ==
    LET name == opinfo.name
        base_latency == IF opinfo.latency = None THEN 0 ELSE opinfo.latency
        same(mems) == [mem |-> mems, st |-> st, z3_regs |-> z3_regs]
    IN  IF name \in LoadMemNames THEN
            same(<<AccessThrough(idx, ins, "ld", name, base_latency, ins.src, st, z3_regs)>>)
        ELSE IF name \in StoreMemNames THEN
            same(<<AccessThrough(idx, ins, "st", name, base_latency, ins.dst, st, z3_regs)>>)
        ELSE IF name \in FpuMemNames THEN
            same(<<>>)
        ELSE IF name = "CALL" /\ ins.imm = BPF_FUNC_map_lookup_elem THEN
            LET base_name == MapBaseName(st)
                z3_addr == IntSym(base_name)
            IN  [mem |-> <<MemoryAccess(idx, "map", SymbolicAddr(base_name, 0), 8,
                                        base_latency, 0, z3_addr)>>,
                 st |-> RegSet(st, 0, make_ptr(base_name, 0)),
                 z3_regs |-> Z3Set(z3_regs, 0, z3_addr)]
        ELSE IF name = "CALL" /\ ins.imm \in {BPF_FUNC_map_update_elem,
                                             BPF_FUNC_map_delete_elem} THEN
            LET base_name == MapBaseName(st)
            IN  [mem |-> <<MemoryAccess(idx, "map", SymbolicAddr(base_name, 0), 8,
                                        base_latency, 0, IntSym(base_name))>>,
                 st |-> RegSet(st, 0, make_unknown),
                 z3_regs |-> Z3Set(z3_regs, 0, z3_reg_var(0, idx))]
        ELSE same(<<>>)

\* _branch_cond_z3: the condition of a conditional jump, <<>> for None.  The
\* left operand is what z3_regs holds for dst, the right one the immediate
\* (K) or what z3_regs holds for src (X).
CmpOfName(name) ==
    IF name \in DOMAIN CmpOps THEN CmpOps[name] ELSE "none"
BranchLhs(idx, ins, z3_regs) == reg_z3(z3_regs, ins.dst, idx)
BranchRhs(idx, ins, name, z3_regs) ==
    IF name \in KNames THEN IntVal(ins.imm) ELSE reg_z3(z3_regs, ins.src, idx)
branch_cond_z3(idx, ins, opinfo, z3_regs) ==
    IF opinfo = NoOpInfo \/ CmpOfName(opinfo.name) = "none" THEN <<>>
    ELSE <<Cmp(CmpOfName(opinfo.name), BranchLhs(idx, ins, z3_regs),
               BranchRhs(idx, ins, opinfo.name, z3_regs))>>

\* One iteration of the loop of _scan_block on instruction idx.
ScanStep(instructions, idx, acc) ==
    LET ins == Fetch(instructions, idx)
        opinfo == opinfo_for(ins)
    IN  IF opinfo = NoOpInfo THEN acc   \* continue
        ELSE
          LET st1 == apply_alu_update(ins, opinfo, acc.st)
              added == alu_constraint(idx, ins, opinfo, acc.z3_regs)
              z1 == apply_alu_update_z3(idx, ins, opinfo, acc.z3_regs)
              m == mem_access_from_instr(idx, ins, opinfo, st1, z1)
          IN  [st |-> m.st, z3_regs |-> m.z3_regs,
               mem |-> acc.mem \o m.mem, added |-> acc.added \o added]

\* _scan_block: the state at block exit, the block's memory accesses and
\* the constraints added to the solver, instruction by instruction.
RECURSIVE ScanFrom(_, _, _, _)
ScanFrom(instructions, idx, end, acc) ==
    IF idx > end THEN acc
    ELSE ScanFrom(instructions, idx + 1, end, ScanStep(instructions, idx, acc))
scan_block(instructions, start, end, st_in, z3_regs_in) ==
    ScanFrom(instructions, start, end,
             [st |-> st_in, z3_regs |-> z3_regs_in, mem |-> <<>>, added |-> <<>>])


(***************************************************************************)
(* The cache model's loop and the static cost of a path.                   *)
(***************************************************************************)
\* m.dram_added = DRAM_EXTRA_CYCLES if m.type in MEMORY_TYPES else 0
InitDram(mem) ==
    [n \in 1..Len(mem) |->
        [mem[n] EXCEPT !.dram_added =
            IF mem[n].type \in MEMORY_TYPES THEN DRAM_EXTRA_CYCLES ELSE 0]]

\* An access the double loop does not `continue` over.
HasLocality(m) == m.z3_addr # NoTerm /\ m.type \in LOCALITY_TYPES

\* range(max(0, i - window), i) starts here.
WindowStart(i, window) == IF i - window > 0 THEN i - window ELSE 0

\* The next pair (i, j) the double loop queries the solver about, from
\* position (i, j) on; <<>> when the loops are over.  Positions count from 0.
RECURSIVE NextQuery(_, _, _, _)
NextQuery(mem, i, j, window) ==
    IF i >= Len(mem) THEN <<>>
    ELSE IF ~HasLocality(mem[i + 1]) \/ j >= i THEN
        NextQuery(mem, i + 1, WindowStart(i + 1, window), window)
    ELSE IF ~HasLocality(mem[j + 1]) THEN NextQuery(mem, i, j + 1, window)
    ELSE <<i, j>>

\* Not(Abs(ai - aj) <= near_z3)
FarAssertion(ai, aj, near) == Not(Cmp("le", Abs(Sub(ai, aj)), IntVal(near)))

\* if res != sat: the access is taken to hit L1.
TakenAsNear(res) == res # "sat"

\* sum(m.dram_added for m in path_mem_accesses)
RECURSIVE SumDram(_)
SumDram(mem) ==
    IF mem = <<>> THEN 0 ELSE Head(mem).dram_added + SumDram(Tail(mem))

\* max(a, b); Latest keeps the new value whatever the old one.
Latest(a, b) == b
Max2(a, b) == IF a >= b THEN a ELSE b

\* The static cost of a sequence of blocks of the table.
RECURSIVE PathCost(_, _, _)
PathCost(instructions, blocks, path) ==
    IF path = <<>> THEN 0
    ELSE instr_to_runtime(instructions, blocks[Head(path)].start,
                          blocks[Head(path)].end)
         + PathCost(instructions, blocks, Tail(path))

\* The entry-to-leaf paths of the graph that repeat no block.
RECURSIVE LeafPaths(_, _, _)
LeafPaths(blocks, b, onp) ==
    IF b \in onp THEN {}
    ELSE IF blocks[b].next = <<>> THEN {<<b>>}
    ELSE UNION {{<<b>> \o p : p \in LeafPaths(blocks, blocks[b].next[k],
                                              onp \cup {b})} :
                k \in 1..Len(blocks[b].next)}

\* The largest number of a finite set of naturals, 0 for the empty set.
MaxOf(S) ==
    IF S = {} THEN 0 ELSE CHOOSE x \in S : \A y \in S : y <= x


(***************************************************************************)
(* The programs the analysis is run on.                                    *)
(***************************************************************************)
OP_MOV64_K == ALU_MOV + BpfS_K + BpfClass_ALU64
OP_JEQ_K == JMP_JEQ + BpfS_K + BpfClass_JMP
OP_JEQ_X == JMP_JEQ + BpfS_X + BpfClass_JMP
OP_JNE_X == JMP_JNE + BpfS_X + BpfClass_JMP
OP_JSET_K == JMP_JSET + BpfS_K + BpfClass_JMP
OP_LDX_W == BpfMode_MEM + BpfSize_W + BpfClass_LDX

I_EXIT == Instruction(OP_EXIT, 0, 0, 0, 0)
I_MOV64_K(dst, imm) == Instruction(OP_MOV64_K, dst, 0, 0, imm)
I_JEQ_K(dst, imm, off) == Instruction(OP_JEQ_K, dst, 0, off, imm)
I_JEQ_X(dst, src, off) == Instruction(OP_JEQ_X, dst, src, off, 0)
I_JNE_X(dst, src, off) == Instruction(OP_JNE_X, dst, src, off, 0)
I_JSET_K(dst, imm, off) == Instruction(OP_JSET_K, dst, 0, off, imm)
I_JA(off) == Instruction(OP_JA, 0, 0, off, 0)
I_CALL(src, imm) == Instruction(OP_CALL, 0, src, 0, imm)
I_LDX_W(dst, src, off) == Instruction(OP_LDX_W, dst, src, off, 0)

\* Every program of at most MaxLen instructions over this alphabet.
Alphabet ==
    {I_EXIT, I_MOV64_K(1, 1), I_JEQ_K(1, 0, 1), I_JA(1),
     I_LDX_W(2, 10, 0 - 8), I_CALL(0, BPF_FUNC_map_lookup_elem)}
SmallPrograms == UNION {[1..n -> Alphabet] : n \in 0..MaxLen}

\* MOV R1,1; MOV R2,2; JEQ_X R1,R2,+1; MOV R3,3; EXIT
P_Branch ==
    <<I_MOV64_K(1, 1), I_MOV64_K(2, 2), I_JEQ_X(1, 2, 1), I_MOV64_K(3, 3), I_EXIT>>
\* Two loads of the same stack slot / of two slots 100 bytes apart.
P_Near == <<I_LDX_W(1, 10, 0 - 8), I_LDX_W(2, 10, 0 - 8), I_EXIT>>
P_Far == <<I_LDX_W(1, 10, 0 - 8), I_LDX_W(2, 10, 0 - 108), I_EXIT>>
\* A register compared with itself: the taken condition R1 != R1 is unsat.
P_Unsat == <<I_JNE_X(1, 1, 1), I_MOV64_K(1, 1), I_EXIT>>
\* The taken path costs more than the fall-through one.
P_Taken == <<I_JEQ_K(1, 0, 1), I_EXIT, I_MOV64_K(1, 1), I_EXIT>>
\* Seven loads; the last one reads the slot of the first, six places back.
P_Window ==
    <<I_LDX_W(1, 10, 0 - 8), I_LDX_W(1, 10, 0 - 108), I_LDX_W(1, 10, 0 - 208),
      I_LDX_W(1, 10, 0 - 308), I_LDX_W(1, 10, 0 - 408), I_LDX_W(1, 10, 0 - 508),
      I_LDX_W(1, 10, 0 - 8), I_EXIT>>
\* A call to a local function (src = 1) that holds a conditional, and a
\* map lookup read through R0.
P_Callee ==
    <<I_CALL(1, 1), I_EXIT, I_JEQ_K(1, 0, 1), I_EXIT, I_MOV64_K(1, 1), I_EXIT>>
P_Map == <<I_CALL(0, BPF_FUNC_map_lookup_elem), I_LDX_W(2, 0, 0), I_EXIT>>
\* A fork with two loads of one slot on the fall-through path.
P_Fork ==
    <<I_JEQ_K(1, 0, 1), I_LDX_W(1, 10, 0 - 8), I_LDX_W(2, 10, 0 - 8), I_EXIT>>
\* A conditional whose opcode neither table holds once it is taken for an
\* FPU instruction (JSET with bit 1 of the immediate set).
P_Unknown == <<I_JEQ_K(1, 0, 1), I_EXIT, I_JSET_K(1, 2, 0), I_EXIT>>

\* A load, then a fork whose taken successor writes a register.
P_LoadFork ==
    <<I_LDX_W(1, 10, 0 - 8), I_JEQ_K(1, 0, 1), I_EXIT, I_MOV64_K(2, 1), I_EXIT>>

Curated ==
    {P_Branch, P_Near, P_Far, P_Unsat, P_Taken, P_Window, P_Callee, P_Map,
     P_Fork, P_Unknown, P_LoadFork}

\* Block graphs a caller hands to the explorers directly: no blocks at all
\* (first_block is None), a block that is its own successor, and a loop
\* with a way out.
P_Self == <<I_JA(0 - 1)>>
P_Loop == <<I_JEQ_K(1, 0, 0 - 1), I_EXIT>>
GivenGraphs ==
    (<<>> :> <<>>)
    @@ (P_Self :> <<Block(0, 0, <<1>>)>>)
    @@ (P_Loop :> <<Block(0, 0, <<1, 2>>), Block(1, 1, <<>>)>>)

\* MOV R1,7; EXIT, and a helper call whose src is none of 0, 1 and 2.
P_Mov7 == <<I_MOV64_K(1, 7), I_EXIT>>
P_CallSrc3 == <<I_CALL(3, 0), I_EXIT>>
\* Helper calls: map_update_elem, map_delete_elem and helper 6, which is
\* not a map helper.
P_MapUpdate == <<I_CALL(0, BPF_FUNC_map_update_elem), I_EXIT>>
P_MapDelete == <<I_CALL(0, BPF_FUNC_map_delete_elem), I_EXIT>>
P_Helper6 == <<I_MOV64_K(0, 1), I_CALL(0, 6), I_EXIT>>
\* The same with the helper named by BTF id (src = 2).
P_HelperBtf == <<I_MOV64_K(0, 1), I_CALL(2, 6), I_EXIT>>
\* Atomic operations on the word at [R10-8]: STX | ATOMIC | W with the
\* sub-operation in imm (ADD = 0, XCHG = 14, ADD | FETCH = 16).
BpfMode_ATOMIC == 192
OP_STX_ATOMIC_W == BpfMode_ATOMIC + BpfSize_W + BpfClass_STX
I_ATOMIC_W(dst, src, off, imm) == Instruction(OP_STX_ATOMIC_W, dst, src, off, imm)
P_AtomicAdd == <<I_ATOMIC_W(10, 1, 0 - 8, 0), I_EXIT>>
P_AtomicXchg == <<I_ATOMIC_W(10, 1, 0 - 8, 14), I_EXIT>>
P_AtomicAddFetch == <<I_ATOMIC_W(10, 1, 0 - 8, 16), I_EXIT>>
\* ADD_K R1,1 with bit 1 of the offset set (the FPU form); EXIT.
\* Two stores of R1 into the same stack slot; two loads of it for contrast
\* are P_Near.
OP_STX_W == 99
I_STX_W(dst, src, off) == Instruction(OP_STX_W, dst, src, off, 0)
P_Stores == <<I_STX_W(10, 1, 0 - 8), I_STX_W(10, 1, 0 - 8), I_EXIT>>

P_Fadd == <<Instruction(ALU_ADD + BpfS_K + BpfClass_ALU, 1, 0, 2, 1), I_EXIT>>
\* One instruction of every opcode value, its other fields zero, then EXIT.
OneOfEach == {<<Instruction(op, 0, 0, 0, 0), I_EXIT>> : op \in 0..255}

Programs ==
    SmallPrograms \cup Curated \cup DOMAIN GivenGraphs \cup OneOfEach
        \cup {P_Mov7, P_CallSrc3, P_Fadd, P_MapUpdate, P_MapDelete, P_Helper6,
              P_AtomicAdd, P_AtomicXchg, P_AtomicAddFetch, P_Stores,
              P_HelperBtf}

\* The 8 bytes of an instruction: every field at its bit position, off and
\* imm in two's complement.
EncodeWord(ins) ==
    <<ins.opcode, ins.dst + 16 * ins.src,
      ins.off % 256, (ins.off \div 256) % 256,
      ins.imm % 256, (ins.imm \div 256) % 256,
      (ins.imm \div 65536) % 256, (ins.imm \div 16777216) % 256>>

RECURSIVE EncodeProgram(_)
EncodeProgram(p) ==
    IF p = <<>> THEN <<>> ELSE EncodeWord(Head(p)) \o EncodeProgram(Tail(p))

\* Files of one word whose fields take their extreme values: the opcode is
\* EXIT, the register byte, the two offset bytes and the four immediate
\* bytes are drawn from the edges of their ranges.
EdgeBytes == {0, 127, 128, 255}
FieldWords ==
    {<<OP_EXIT, regs, o1, o2, i1, i2, i2, i4>> :
        regs \in {0, 161, 255}, o1 \in EdgeBytes, o2 \in EdgeBytes,
        i1 \in EdgeBytes, i2 \in {0, 255}, i4 \in EdgeBytes}

\* Files that end in the middle of a word.
Truncated ==
    {SubSeq(EncodeProgram(P_Mov7), 1, n) : n \in {1, 7, 9, 12, 15}}

\* LD | IMM | DW (lddw): a 16-byte instruction.  Its second word holds
\* nothing but the upper half of the 64-bit immediate.
OP_LD_IMM_DW == 24
W_Lddw == <<OP_LD_IMM_DW, 1, 0, 0, 5, 0, 0, 0>>
W_Upper == <<0, 0, 0, 0, 9, 0, 0, 0>>
WideFiles ==
    {W_Lddw \o W_Upper \o EncodeWord(I_EXIT),   \* lddw r1, imm64; exit
     W_Lddw,                                     \* the second word is missing
     W_Lddw \o SubSeq(W_Upper, 1, 4)}            \* the second word is cut

Files ==
    {EncodeProgram(p) : p \in Programs} \cup FieldWords \cup Truncated
        \cup WideFiles


(***************************************************************************)
(* The state of one run: read_file, the CFG builders, then dfs_blocks,    *)
(* then dfs_blocks_with_mem on the same blocks.                            *)
(***************************************************************************)
VARIABLES
    file,            \* the bytes of the program file
    read_err,        \* the exception read_file raised, or "none"
    instructions,    \* the decoded program
    pc,              \* where the run is
    scan,            \* what get_blocks_scan returned
    blocks,          \* the Block objects, named by their position
    first_block,     \* the entry block, 0 for None
    origin,          \* "tree": built by get_blocks_tree; "given": by the caller
    build_err,       \* the exception get_blocks_tree raised, or "none"
    call,            \* dfs_blocks: the block dfs() is being called on, 0 if none
    stack,           \* dfs_blocks: the active calls of dfs()
    onpath,          \* dfs_blocks: nodes on the current recursion path
    path_runtime,    \* dfs_blocks: the runtime of the current path
    path_runtime_ub, \* dfs_blocks: the largest path runtime so far
    plain_result,    \* what dfs_blocks returned
    backedges,       \* dfs_blocks: the blocks of the back-edge messages printed
    mcall,           \* dfs_blocks_with_mem: the pending call of dfs(), if any
    mstack,          \* dfs_blocks_with_mem: the active calls of dfs()
    solver,          \* the shared solver: its scopes, each a list of assertions
    runtime_ub,      \* dfs_blocks_with_mem: the upper bound across all paths
    exc,             \* the exception in flight, or "none"
    completed,       \* the entry-to-leaf paths finished so far
    last_query,      \* the last answer the cache model got from the solver
    mem_result,      \* what dfs_blocks_with_mem returned
    more,            \* bpf.py: the bytes a caller widens an instruction with
    wide             \* bpf.py: the BpfInstruction the caller holds

cfg_vars == <<file, read_err, instructions, scan, blocks, first_block, origin, build_err>>
bpf_vars == <<more, wide>>
dfs_vars == <<call, stack, onpath, path_runtime, path_runtime_ub, plain_result,
              backedges>>
mem_vars == <<mcall, mstack, solver, runtime_ub, exc, completed, last_query,
              mem_result>>
vars == <<pc, cfg_vars, dfs_vars, mem_vars, bpf_vars>>

NoQuery == [i |-> 0 - 1, j |-> 0 - 1, res |-> "none", zeroed |-> FALSE]
NoResult == 0 - 1

Init ==
    /\ file \in Files
    /\ read_err = "none"
    /\ instructions = <<>>
    /\ pc = "file"
    /\ scan = [err |-> "unset", blocks |-> <<>>]
    /\ blocks = <<>>
    /\ first_block = 0
    /\ origin = "none"
    /\ build_err = "none"
    /\ call = 0
    /\ stack = <<>>
    /\ onpath = {}
    /\ path_runtime = 0
    /\ path_runtime_ub = 0
    /\ plain_result = NoResult
    /\ backedges = <<>>
    /\ mcall = <<>>
    /\ mstack = <<>>
    /\ solver = <<>>
    /\ runtime_ub = 0
    /\ exc = "none"
    /\ completed = <<>>
    /\ last_query = NoQuery
    /\ mem_result = NoResult
    /\ more = <<>>
    /\ wide = BpfInstruction(<<>>)

\* instructions = read_file(filename); an exception ends the run.
ReadFile ==
    /\ pc = "file"
    /\ LET r == read_file(file) IN
       /\ read_err' = r.err
       /\ instructions' = r.instructions
       /\ pc' = IF r.err = "none" THEN "start" ELSE "done"
    /\ UNCHANGED bpf_vars
    /\ UNCHANGED <<file, scan, blocks, first_block, origin, build_err,
                   dfs_vars, mem_vars>>

\* basic_blocks = get_blocks_scan(instructions)
BuildScan ==
    /\ pc = "start"
    /\ scan' = get_blocks_scan(instructions)
    /\ pc' = "scanned"
    /\ UNCHANGED bpf_vars
    /\ UNCHANGED <<file, read_err, instructions, blocks, first_block, origin,
                   build_err, dfs_vars, mem_vars>>

\* first_block = get_blocks_tree(instructions); an exception ends the run.
BuildTree ==
    /\ pc = "scanned"
    /\ LET t == get_blocks_tree(instructions, 0, {}) IN
       /\ build_err' = t.err
       /\ blocks' = t.nodes
       /\ first_block' = IF t.err = "none" THEN 1 ELSE 0
       /\ pc' = IF t.err = "none" THEN "built" ELSE "done"
    /\ origin' = "tree"
    /\ UNCHANGED bpf_vars
    /\ UNCHANGED <<file, read_err, instructions, scan, dfs_vars, mem_vars>>

\* The caller builds the blocks itself with Block(...) and Block.add.
GivenGraph ==
    /\ pc = "scanned"
    /\ instructions \in DOMAIN GivenGraphs
    /\ blocks' = GivenGraphs[instructions]
    /\ first_block' = IF GivenGraphs[instructions] = <<>> THEN 0 ELSE 1
    /\ origin' = "given"
    /\ pc' = "built"
    /\ UNCHANGED bpf_vars
    /\ UNCHANGED <<file, read_err, instructions, scan, build_err, dfs_vars,
                   mem_vars>>

(***************************************************************************)
(* dfs.py: dfs_blocks.                                                     *)
(***************************************************************************)
Top(s) == s[Len(s)]
PopFrame(s) == SubSeq(s, 1, Len(s) - 1)
SetTop(s, f) == [s EXCEPT ![Len(s)] = f]

\* onpath.add(block) / onpath.remove(block)
OnpathAdd(set, block) == set \cup {block}
OnpathKeep(set, block) == set
OnpathRemove(set, block) == set \ {block}

\* dfs_blocks(first_block, instructions) up to the call dfs(first_block).
DfsStart ==
    /\ pc = "built"
    /\ IF first_block = 0
       THEN /\ plain_result' = 0
            /\ pc' = "dfs_done"
            /\ call' = 0
       ELSE /\ plain_result' = plain_result
            /\ pc' = "dfs"
            /\ call' = first_block
    /\ onpath' = {}
    /\ path_runtime' = 0
    /\ path_runtime_ub' = 0
    /\ backedges' = <<>>
    /\ UNCHANGED bpf_vars
    /\ UNCHANGED <<cfg_vars, stack, mem_vars>>

\* dfs(block) from its first line to the for loop: a block already on the
\* path is a back-edge and returns at once.
DfsEnter ==
    /\ pc = "dfs"
    /\ call # 0
    /\ call' = 0
    /\ IF call \in onpath
       THEN /\ backedges' = Append(backedges, call)
            /\ UNCHANGED <<stack, onpath, path_runtime, path_runtime_ub>>
       ELSE LET block == blocks[call]
                instr_runtime ==
                    instr_to_runtime(instructions, block.start, block.end)
            IN  /\ onpath' = OnpathAdd(onpath, call)
                /\ path_runtime' = path_runtime + instr_runtime
                /\ path_runtime_ub' =
                       IF block.next = <<>>
                       THEN Max2(path_runtime_ub, path_runtime + instr_runtime)
                       ELSE path_runtime_ub
                /\ stack' = Append(stack, [block |-> call, k |-> 1,
                                           instr_runtime |-> instr_runtime])
                /\ backedges' = backedges
    /\ UNCHANGED bpf_vars
    /\ UNCHANGED <<pc, cfg_vars, plain_result, mem_vars>>

\* for nxt in block.next: dfs(nxt)
DfsLoop ==
    /\ pc = "dfs"
    /\ call = 0
    /\ stack # <<>>
    /\ Top(stack).k <= Len(blocks[Top(stack).block].next)
    /\ call' = blocks[Top(stack).block].next[Top(stack).k]
    /\ stack' = SetTop(stack, [Top(stack) EXCEPT !.k = @ + 1])
    /\ UNCHANGED bpf_vars
    /\ UNCHANGED <<pc, cfg_vars, onpath, path_runtime, path_runtime_ub,
                   plain_result, backedges, mem_vars>>

\* path_runtime -= instr_runtime; onpath.remove(block); return
DfsReturn ==
    /\ pc = "dfs"
    /\ call = 0
    /\ stack # <<>>
    /\ Top(stack).k > Len(blocks[Top(stack).block].next)
    /\ path_runtime' = path_runtime - Top(stack).instr_runtime
    /\ onpath' = OnpathRemove(onpath, Top(stack).block)
    /\ stack' = PopFrame(stack)
    /\ UNCHANGED bpf_vars
    /\ UNCHANGED <<pc, cfg_vars, call, path_runtime_ub, plain_result,
                   backedges, mem_vars>>

\* return path_runtime_ub
DfsDone ==
    /\ pc = "dfs"
    /\ call = 0
    /\ stack = <<>>
    /\ plain_result' = path_runtime_ub
    /\ pc' = "dfs_done"
    /\ UNCHANGED bpf_vars
    /\ UNCHANGED <<cfg_vars, call, stack, onpath, path_runtime,
                   path_runtime_ub, backedges, mem_vars>>


(***************************************************************************)
(* mem_access.py: dfs_blocks_with_mem.                                     *)
(***************************************************************************)
\* solver.push() / solver.add(c) on the innermost scope / solver.pop()
Push(scopes) == Append(scopes, <<>>)
AddOutermost(scopes, cs) == [scopes EXCEPT ![1] = @ \o cs]
AddAll(scopes, cs) == [scopes EXCEPT ![Len(scopes)] = @ \o cs]
KeepScopes(scopes) == scopes
Pop(scopes) == SubSeq(scopes, 1, Len(scopes) - 1)

\* The arguments of a call of dfs(): the block and the per-path state.
Call(block, st, z3_regs, mem, rt) ==
    <<[block |-> block, st |-> st, z3_regs |-> z3_regs, mem |-> mem, rt |-> rt]>>

\* One recursive call the block's terminator asks for: the successor and
\* the condition pushed around the call (<<>>: no push, nothing added).
Visit(succ, guard) == [succ |-> succ, guard |-> guard]

\* The else branch of dfs(): the calls to make, in order, or the exception.
BranchPlan(next, term_info, cond) ==
    IF term_info = NoOpInfo THEN [err |-> "ValueError", todo |-> <<>>]
    ELSE IF cond = <<>> THEN
        IF term_info.name \in {"JA", "CALL"} \/ Len(next) = 1
        THEN [err |-> "none", todo |-> <<Visit(next[1], <<>>)>>]
        ELSE IF Len(next) = 2
        THEN [err |-> "none",
              todo |-> <<Visit(next[1], <<>>), Visit(next[2], <<>>)>>]
        ELSE [err |-> "ValueError", todo |-> <<>>]
    ELSE IF Len(next) < 2 THEN [err |-> "IndexError", todo |-> <<>>]
    ELSE [err |-> "none",
          todo |-> <<Visit(next[1], cond), Visit(next[2], <<Not(cond[1])>>)>>]

\* The caller's per-path state once a callee has returned.  Every call
\* passes st_out.clone() and deepcopy() of the Z3 register map and of the
\* memory-access list, and _scan_block works on a clone of st_in and a
\* deepcopy of z3_regs, so nothing the callee wrote is in the caller's
\* objects.  AliasedOnFork is what passing the objects themselves would
\* give: the callee's writes land in the caller's state.
AliasedOnFork(caller, callee) ==
    [caller EXCEPT !.st = callee.st, !.z3_regs = callee.z3_regs,
                   !.mem = SubSeq(callee.mem, 1, Len(caller.mem))]
CopiedOnFork(caller, callee) == caller

\* The active calls once the innermost one has returned.
ReturnFrom(s) ==
    IF Len(s) = 1 THEN <<>>
    ELSE SetTop(PopFrame(s), CopiedOnFork(s[Len(s) - 1], Top(s)))

\* The blocks of the active calls, outermost first.
ActivePath(frames) == [n \in 1..Len(frames) |-> frames[n].block]

\* dfs_blocks_with_mem(first_block, instructions) up to the first dfs().
MemStart ==
    /\ pc = "dfs_done"
    /\ IF first_block = 0
       THEN /\ mem_result' = 0
            /\ pc' = "done"
            /\ mcall' = <<>>
       ELSE /\ mem_result' = mem_result
            /\ pc' = "mem"
            /\ mcall' = Call(first_block, init_state, (10 :> IntSym("fp")),
                             <<>>, 0)
    /\ solver' = <<>>
    /\ runtime_ub' = 0
    /\ UNCHANGED bpf_vars
    /\ UNCHANGED <<cfg_vars, dfs_vars, mstack, exc, completed, last_query>>

\* dfs(block, ...) from solver.push() to the leaf test: push, scan the
\* block, then either start the cache model (leaf) or plan the recursive
\* calls.  Past RecLimit nested calls the interpreter raises instead.
MemEnter ==
    /\ pc = "mem"
    /\ exc = "none"
    /\ mcall # <<>>
    /\ mcall' = <<>>
    /\ IF Len(mstack) >= RecLimit
       THEN /\ exc' = "RecursionError"
            /\ UNCHANGED <<mstack, solver>>
       ELSE LET c == mcall[1]
                block == blocks[c.block]
                base_rt == instr_to_runtime(instructions, block.start, block.end)
                sc == scan_block(instructions, block.start, block.end,
                                 c.st, c.z3_regs)
                mem_next == c.mem \o sc.mem
                term_instr == Fetch(instructions, block.end)
                term_info == opinfo_for(term_instr)
                plan == BranchPlan(block.next, term_info,
                            branch_cond_z3(block.end, term_instr, term_info,
                                           sc.z3_regs))
                leaf == block.next = <<>>
                mem0 == IF leaf THEN InitDram(mem_next) ELSE mem_next
            IN  /\ solver' = AddAll(Push(solver), sc.added)
                /\ mstack' = Append(mstack,
                       [block |-> c.block, depth |-> Len(solver),
                        st |-> sc.st, z3_regs |-> sc.z3_regs, mem |-> mem0,
                        rt |-> c.rt + base_rt,
                        phase |-> IF leaf THEN "cache" ELSE "branch",
                        q |-> IF leaf THEN NextQuery(mem0, 0, 0, PEEP_WINDOW)
                              ELSE <<>>,
                        todo |-> IF leaf THEN <<>> ELSE plan.todo,
                        open |-> FALSE])
                /\ exc' = IF leaf THEN "none" ELSE plan.err
    /\ UNCHANGED bpf_vars
    /\ UNCHANGED <<pc, cfg_vars, dfs_vars, runtime_ub, completed, last_query,
                   mem_result>>

\* _est_cache_latency_z3: solver.push(); solver.add(Not(Abs(ai - aj) <= near))
CacheQuery ==
    /\ pc = "mem" /\ exc = "none" /\ mcall = <<>> /\ mstack # <<>>
    /\ Top(mstack).phase = "cache"
    /\ Top(mstack).q # <<>>
    /\ LET f == Top(mstack)
           ai == f.mem[f.q[1] + 1].z3_addr
           aj == f.mem[f.q[2] + 1].z3_addr
       IN  /\ solver' = AddAll(Push(solver), <<FarAssertion(ai, aj, NEAR_DELTA)>>)
           /\ mstack' = SetTop(mstack, [f EXCEPT !.phase = "check"])
    /\ UNCHANGED bpf_vars
    /\ UNCHANGED <<pc, cfg_vars, dfs_vars, mcall, runtime_ub, exc, completed,
                   last_query, mem_result>>

\* res = solver.check(); solver.pop(); if res != sat: dram_added = 0; break
CacheCheck ==
    /\ pc = "mem" /\ exc = "none" /\ mcall = <<>> /\ mstack # <<>>
    /\ Top(mstack).phase = "check"
    /\ \E res \in CheckAnswers(solver) :
        LET f == Top(mstack)
            i == f.q[1]
            j == f.q[2]
            near == TakenAsNear(res)
            mem1 == IF near THEN [f.mem EXCEPT ![i + 1].dram_added = 0]
                    ELSE f.mem
            q1 == IF near
                  THEN NextQuery(mem1, i + 1, WindowStart(i + 1, PEEP_WINDOW),
                                 PEEP_WINDOW)
                  ELSE NextQuery(mem1, i, j + 1, PEEP_WINDOW)
        IN  /\ mstack' = SetTop(mstack,
                            [f EXCEPT !.phase = "cache", !.mem = mem1, !.q = q1])
            /\ last_query' = [i |-> i, j |-> j, res |-> res, zeroed |-> near]
    /\ solver' = Pop(solver)
    /\ UNCHANGED bpf_vars
    /\ UNCHANGED <<pc, cfg_vars, dfs_vars, mcall, runtime_ub, exc, completed,
                   mem_result>>

\* The leaf once the cache model is through: the path's total, the running
\* maximum, and the return through finally.
MemLeaf ==
    /\ pc = "mem" /\ exc = "none" /\ mcall = <<>> /\ mstack # <<>>
    /\ Top(mstack).phase = "cache"
    /\ Top(mstack).q = <<>>
    /\ LET f == Top(mstack)
           dram_pen == SumDram(f.mem)
           total_rt == f.rt + dram_pen
       IN  /\ runtime_ub' = Max2(runtime_ub, total_rt)
           /\ completed' = Append(completed,
                  [path |-> ActivePath(mstack), mem |-> f.mem,
                   dram |-> dram_pen, total |-> total_rt,
                   constraints |-> Flatten(solver),
                   st |-> f.st, z3_regs |-> f.z3_regs])
    /\ solver' = Pop(solver)
    /\ mstack' = ReturnFrom(mstack)
    /\ UNCHANGED bpf_vars
    /\ UNCHANGED <<pc, cfg_vars, dfs_vars, mcall, exc, last_query, mem_result>>

\* The next recursive call of a block with successors: solver.push() and
\* solver.add(cond) first when the call is made under a condition.
MemBranch ==
    /\ pc = "mem" /\ exc = "none" /\ mcall = <<>> /\ mstack # <<>>
    /\ Top(mstack).phase = "branch"
    /\ ~Top(mstack).open
    /\ Top(mstack).todo # <<>>
    /\ LET f == Top(mstack)
           v == Head(f.todo)
       IN  /\ solver' = IF v.guard = <<>> THEN solver
                        ELSE AddAll(Push(solver), v.guard)
           /\ mcall' = Call(v.succ, f.st, f.z3_regs, f.mem, f.rt)
           /\ mstack' = SetTop(mstack, [f EXCEPT !.todo = Tail(@),
                                                 !.open = v.guard # <<>>])
    /\ UNCHANGED bpf_vars
    /\ UNCHANGED <<pc, cfg_vars, dfs_vars, runtime_ub, exc, completed,
                   last_query, mem_result>>

\* solver.pop() after a call made under a condition has returned.
MemAfter ==
    /\ pc = "mem" /\ exc = "none" /\ mcall = <<>> /\ mstack # <<>>
    /\ Top(mstack).phase = "branch"
    /\ Top(mstack).open
    /\ solver' = Pop(solver)
    /\ mstack' = SetTop(mstack, [Top(mstack) EXCEPT !.open = FALSE])
    /\ UNCHANGED bpf_vars
    /\ UNCHANGED <<pc, cfg_vars, dfs_vars, mcall, runtime_ub, exc, completed,
                   last_query, mem_result>>

\* finally: solver.pop(), on the normal return of a block with successors.
MemReturn ==
    /\ pc = "mem" /\ exc = "none" /\ mcall = <<>> /\ mstack # <<>>
    /\ Top(mstack).phase = "branch"
    /\ ~Top(mstack).open
    /\ Top(mstack).todo = <<>>
    /\ solver' = Pop(solver)
    /\ mstack' = ReturnFrom(mstack)
    /\ UNCHANGED bpf_vars
    /\ UNCHANGED <<pc, cfg_vars, dfs_vars, mcall, runtime_ub, exc, completed,
                   last_query, mem_result>>

\* finally: solver.pop(), as an exception leaves a call of dfs(); the pop
\* that follows a call made under a condition is skipped.
MemUnwind ==
    /\ pc = "mem" /\ exc # "none" /\ mstack # <<>>
    /\ solver' = Pop(solver)
    /\ mstack' = ReturnFrom(mstack)
    /\ UNCHANGED bpf_vars
    /\ UNCHANGED <<pc, cfg_vars, dfs_vars, mcall, runtime_ub, exc, completed,
                   last_query, mem_result>>

\* return runtime_ub, ... or the exception reaches the caller.
MemDone ==
    /\ pc = "mem" /\ mcall = <<>> /\ mstack = <<>>
    /\ mem_result' = IF exc = "none" THEN runtime_ub ELSE NoResult
    /\ pc' = "done"
    /\ UNCHANGED bpf_vars
    /\ UNCHANGED <<cfg_vars, dfs_vars, mcall, mstack, solver, runtime_ub, exc,
                   completed, last_query>>

Next ==
    \/ ReadFile
    \/ BuildScan \/ BuildTree \/ GivenGraph
    \/ DfsStart \/ DfsEnter \/ DfsLoop \/ DfsReturn \/ DfsDone
    \/ MemStart \/ MemEnter \/ CacheQuery \/ CacheCheck \/ MemLeaf
    \/ MemBranch \/ MemAfter \/ MemReturn \/ MemUnwind \/ MemDone

Spec == Init /\ [][Next]_vars


(***************************************************************************)
(* bpf.py: a caller that holds a BpfInstruction and widens it.  Nothing in *)
(* main.py does; the class is exercised on its own.                        *)
(***************************************************************************)
\* The second words tried: every byte at an edge of its range, and words
\* that are not 8 bytes long.
SecondWords ==
    [1..8 -> {0, 129, 255}] \cup {<<>>, SubSeq(W_Upper, 1, 4), W_Upper \o <<0>>}

InitWide ==
    /\ more \in SecondWords
    /\ wide = BpfInstruction(W_Lddw)
    /\ pc = "widen"
    /\ file = <<>>
    /\ read_err = "none"
    /\ instructions = <<>>
    /\ scan = [err |-> "unset", blocks |-> <<>>]
    /\ blocks = <<>>
    /\ first_block = 0
    /\ origin = "none"
    /\ build_err = "none"
    /\ call = 0
    /\ stack = <<>>
    /\ onpath = {}
    /\ path_runtime = 0
    /\ path_runtime_ub = 0
    /\ plain_result = NoResult
    /\ backedges = <<>>
    /\ mcall = <<>>
    /\ mstack = <<>>
    /\ solver = <<>>
    /\ runtime_ub = 0
    /\ exc = "none"
    /\ completed = <<>>
    /\ last_query = NoQuery
    /\ mem_result = NoResult

\* ins.widen_instruction(more)
Widen ==
    /\ pc = "widen"
    /\ wide' = widen_instruction(wide, more)
    /\ pc' = "widened"
    /\ UNCHANGED <<more, cfg_vars, dfs_vars, mem_vars>>

NextWide == Widen

SpecWide == InitWide /\ [][NextWide]_vars


(***************************************************************************)
(* Properties.                                                             *)
(***************************************************************************)
Built_ok == origin # "none" /\ build_err = "none" /\ first_block # 0
PlainReturned == pc \in {"dfs_done", "mem", "done"} /\ Built_ok
MemReturned == pc = "done" /\ Built_ok /\ exc = "none"

\* The cost of every path completed so far: the static cost of its blocks
\* plus the DRAM penalty the cache model gave it.
CompletedCosts ==
    {PathCost(instructions, blocks, completed[n].path) + completed[n].dram :
        n \in 1..Len(completed)}

\* C1: the bound an explorer reports is the largest cost of a completed
\* entry-to-leaf path (static block costs plus DRAM penalty), so no
\* completed path costs more: for dfs_blocks over the entry-to-leaf paths
\* of the graph, for dfs_blocks_with_mem over the paths it completed, at
\* every moment and in what it returns.
C1_BoundIsMaxOverPaths ==
    /\ PlainReturned =>
          plain_result = MaxOf({PathCost(instructions, blocks, p) :
                                   p \in LeafPaths(blocks, first_block, {})})
    /\ runtime_ub = MaxOf(CompletedCosts)
    /\ \A n \in 1..Len(completed) : completed[n].total <= runtime_ub
    /\ MemReturned => mem_result = MaxOf(CompletedCosts)

\* Both explorers have returned, and the first path completed costs more
\* than the last one.
C1_Witness ==
    /\ MemReturned
    /\ Len(completed) = 2
    /\ completed[1].total > completed[2].total
    /\ mem_result = completed[1].total
    /\ plain_result = mem_result

\* C2: no block is visited while the assertions the solver holds (the
\* path constraint) are unsatisfiable.
C2_NoVisitUnderUnsat ==
    mcall # <<>> => Satisfiable(Flatten(solver))

\* C3: the cache model removes the DRAM penalty of an access only on the
\* answer unsat; sat and unknown leave the penalty in place.
C3_ZeroOnlyOnUnsat ==
    last_query.zeroed => last_query.res = "unsat"

\* C4: pushes and pops of the shared solver are balanced: a query of the
\* cache model leaves the depth as it found it, a block visit returns with
\* the depth it was entered with, and dfs_blocks_with_mem returns with the
\* solver at its initial depth (no scope).
C4_PushPopBalanced ==
    [][/\ (exc' = "none" /\ Len(mstack') < Len(mstack)) =>
              Len(solver') = Top(mstack).depth
       /\ (exc' = "none" /\ Len(mstack') = Len(mstack) /\ mstack # <<>>
           /\ Top(mstack).phase = "check") =>
              Len(solver') = Top(mstack).depth + 1
       /\ (exc' = "none" /\ Len(mstack') = Len(mstack) /\ mstack # <<>>
           /\ Top(mstack).open) =>
              Len(solver') = Top(mstack).depth + 1
       /\ (pc' = "done" /\ exc' = "none") => solver' = <<>>]_vars

\* dfs_blocks_with_mem has returned after visits made under a condition
\* and after queries of the cache model.
C4_Witness ==
    /\ MemReturned
    /\ pc = "done"
    /\ Len(completed) >= 2
    /\ last_query.res # "none"
    /\ solver = <<>>

\* C5: a block already on the current path is not entered again, in
\* either explorer: the active calls are on pairwise different blocks.
C5_NoReentry ==
    /\ \A m, n \in 1..Len(stack) : stack[m].block = stack[n].block => m = n
    /\ \A m, n \in 1..Len(mstack) : mstack[m].block = mstack[n].block => m = n


\* The index ranges of the blocks each builder produced.
TreeRanges == {<<blocks[n].start, blocks[n].end>> : n \in DOMAIN blocks}
ScanRanges == {scan.blocks[n] : n \in DOMAIN scan.blocks}

\* The ranges cover 0..N-1 with no overlap and no gap: every index of the
\* program lies in exactly one of them, and none reaches outside.
Partitions(ranges, N) ==
    /\ \A r \in ranges : 0 <= r[1] /\ r[1] <= r[2] /\ r[2] < N
    /\ \A idx \in 0..(N - 1) :
          Cardinality({r \in ranges : r[1] <= idx /\ idx <= r[2]}) = 1

\* The indices the jumps and local calls of the program transfer to.
JumpTargets(ins) ==
    {idx + Fetch(ins, idx).off + 1 :
        idx \in {i \in 0..(Len(ins) - 1) :
                    Fetch(ins, i).opcode \in CondOpcodes \cup {OP_JA}}}
    \cup {idx + Fetch(ins, idx).imm + 1 :
        idx \in {i \in 0..(Len(ins) - 1) :
                    \/ Fetch(ins, i).opcode = OP_JA32
                    \/ Fetch(ins, i).opcode = OP_CALL /\ Fetch(ins, i).src = 1}}
TargetsStartBlocks(ranges, ins) ==
    \A t \in JumpTargets(ins) : \E r \in ranges : r[1] = t

\* C6: the block ranges of every CFG produced, by get_blocks_tree and by
\* get_blocks_scan, cover 0..N-1 with no overlap and no gap, and every
\* jump target is the first index of a block.
C6_BlocksPartitionProgram ==
    /\ (origin = "tree" /\ build_err = "none") =>
          /\ Partitions(TreeRanges, Len(instructions))
          /\ TargetsStartBlocks(TreeRanges, instructions)
    /\ scan.err = "none" =>
          /\ Partitions(ScanRanges, Len(instructions))
          /\ TargetsStartBlocks(ScanRanges, instructions)

\* C7: in a tree get_blocks_tree built, a block has no successor iff it
\* ends in EXIT, one iff it ends in JA, JA32 or a call, two iff it ends in
\* a conditional jump; a conditional's successor 0 starts at the taken
\* target idx + off + 1 and its successor 1 at the fall-through idx + 1.
C7_SuccessorsFollowTerminator ==
    (origin = "tree" /\ build_err = "none") =>
        \A n \in DOMAIN blocks :
            LET b == blocks[n]
                t == Fetch(instructions, b.end)
            IN  /\ Len(b.next) = 0 <=> t.opcode = OP_EXIT
                /\ Len(b.next) = 1 <=> t.opcode \in {OP_JA, OP_JA32, OP_CALL}
                /\ Len(b.next) = 2 <=> t.opcode \in CondOpcodes
                /\ t.opcode \in CondOpcodes =>
                      /\ blocks[b.next[1]].start = b.end + t.off + 1
                      /\ blocks[b.next[2]].start = b.end + 1

\* A tree with a leaf, a block ending in a call and a block ending in a
\* conditional whose two targets differ.
C7_Witness ==
    /\ origin = "tree" /\ build_err = "none" /\ pc = "built"
    /\ \E n \in DOMAIN blocks : Len(blocks[n].next) = 1
    /\ \E n \in DOMAIN blocks :
          /\ Len(blocks[n].next) = 2
          /\ blocks[blocks[n].next[1]].start # blocks[blocks[n].next[2]].start

\* C8: in dfs_blocks the on-path set holds exactly the blocks of the
\* active calls of dfs(), each once; it is empty before the first block
\* is visited and empty again once the DFS has returned.
C8_OnpathIsActivePath ==
    /\ onpath = {stack[n].block : n \in 1..Len(stack)}
    /\ Cardinality(onpath) = Len(stack)
    /\ pc # "dfs" => onpath = {}
    /\ (pc = "dfs" /\ stack = <<>>) => onpath = {}

\* Two calls are active, after a first path has been completed and left.
C8_Witness ==
    /\ pc = "dfs"
    /\ Len(stack) = 2
    /\ onpath = {stack[1].block, stack[2].block}
    /\ path_runtime_ub > 0
    /\ stack[1].k = 3

\* The path through the fall-through successor of the program's branch.
FallThroughPath ==
    {n \in 1..Len(completed) :
        blocks[completed[n].path[Len(completed[n].path)]].start = 3}

ProvablyNear(c, n) ==
    \E m \in (WindowStart(n - 1, PEEP_WINDOW) + 1)..(n - 1) :
        /\ c.mem[m].type \in {"ld", "st"}
        /\ c.mem[m].z3_addr # NoTerm /\ c.mem[n].z3_addr # NoTerm
        /\ ~Satisfiable(c.constraints
                        \o <<FarAssertion(c.mem[n].z3_addr, c.mem[m].z3_addr,
                                          NEAR_DELTA)>>)

\* C10: on a completed path a load or store has DRAM penalty 0 exactly
\* when an access of its window is provably near, and 87 otherwise; the
\* two loads of [R10-8] give 111, the loads of [R10-8] and [R10-108] 198.
C10_PenaltyIffProvablyNear ==
    /\ \A k \in 1..Len(completed) : \A n \in 1..Len(completed[k].mem) :
          completed[k].mem[n].type \in {"ld", "st"} =>
              completed[k].mem[n].dram_added =
                  IF ProvablyNear(completed[k], n) THEN 0 ELSE 87
    /\ (instructions = P_Near /\ MemReturned) => mem_result = 111
    /\ (instructions = P_Far /\ MemReturned) => mem_result = 198


\* The catalog latencies of a program's instructions, summed: the entry of
\* BPF_INFO, the table instr_to_runtime reads, with None counting as 0.
RECURSIVE CatalogSum(_)
CatalogSum(p) ==
    IF p = <<>> THEN 0
    ELSE (IF BPF_INFO[Head(p).opcode].latency = None THEN 0
          ELSE BPF_INFO[Head(p).opcode].latency) + CatalogSum(Tail(p))

\* The program is one straight-line block: ALU instructions that the
\* catalog holds, closed by the only EXIT, built as the single block
\* BB(0, N-1).
StraightLine ==
    /\ origin = "tree" /\ build_err = "none"
    /\ blocks = <<Block(0, Len(instructions) - 1, <<>>)>>
    /\ \A k \in 1..Len(instructions) :
          /\ instructions[k].opcode \in DOMAIN BPF_INFO
          /\ \/ get_class(instructions[k].opcode)
                    \in {BpfClass_ALU, BpfClass_ALU64}
             \/ instructions[k].opcode = OP_EXIT

C12_EmptyProgramZero ==
    (file = <<>> /\ pc = "done") =>
        /\ read_err = "none" /\ build_err = "none" /\ exc = "none"
        /\ plain_result = 0 /\ mem_result = 0

\* The paths from block b that dfs_blocks walks: each ends at a leaf, or at
\* a block one of whose successors is already on the path (a back-edge).
RECURSIVE CutPaths(_, _)
CutPaths(b, onp) ==
    IF blocks[b].next = <<>> THEN {<<b>>}
    ELSE UNION {IF blocks[b].next[k] \in onp \cup {b} THEN {<<b>>}
                ELSE {<<b>> \o p : p \in CutPaths(blocks[b].next[k],
                                                  onp \cup {b})} :
                k \in 1..Len(blocks[b].next)}

BackEdgeAtFirstBlock ==
    \E n \in 1..Len(backedges) : backedges[n] = first_block

\* C13: when dfs_blocks meets a back-edge at the first block it prints the
\* back-edge message, no block is entered while it is on the path, and the
\* bound it returns is the cost of one iteration of the blocks of the paths
\* walked: the largest cost of a path cut at its leaf or at its back-edge.
C13_BackEdgeSingleIteration ==
    /\ \A i, j \in 1..Len(stack) : stack[i].block = stack[j].block => i = j
    /\ (PlainReturned /\ BackEdgeAtFirstBlock) =>
          plain_result = MaxOf({PathCost(instructions, blocks, p) :
                                   p \in CutPaths(first_block, {})})

\* The indices of the instructions inside the blocks of the CFG.
BlockIndices ==
    UNION {{i \in blocks[b].start..blocks[b].end : i >= 0 /\ i < Len(instructions)} :
           b \in 1..Len(blocks)}

\* C14: when an instruction of a block of the CFG has an opcode that
\* neither catalog holds, no explorer reports a bound: the run ends with
\* an error.
C14_UnknownOpcodeAborts ==
    (Built_ok /\ \E i \in BlockIndices :
                    Fetch(instructions, i).opcode
                        \notin DOMAIN BPF_INFO \cup DOMAIN BPF_INFO_FPU) =>
        /\ plain_result = NoResult
        /\ mem_result = NoResult

\* C15: a loop in the program is not fatal: CFG construction never ends
\* with the "detected loop" error, so a program with a back-edge still gets
\* its blocks and, from dfs_blocks, a bound.
C15_LoopIsNotFatal ==
    /\ build_err # "detected loop"
    /\ (instructions = P_Loop /\ origin = "tree" /\ pc = "done") =>
          plain_result # NoResult

\* Whether get_blocks_tree has a case for a jump-class instruction: EXIT,
\* JA, the conditional jumps, and CALL with src 0, 1 or 2.
HasWiringRule(ins) ==
    \/ ins.opcode \in {OP_EXIT, OP_JA, OP_JA32} \cup CondOpcodes
    \/ ins.opcode = OP_CALL /\ ins.src \in {0, 1, 2}

\* C16: a CFG is only built from instructions the builder can wire: every
\* instruction of class JMP or JMP32 inside a block of a built CFG has a
\* wiring rule, any other one having made the construction fail.
C16_UnwiredJumpFails ==
    (origin = "tree" /\ build_err = "none") =>
        \A i \in BlockIndices :
            get_class(Fetch(instructions, i).opcode)
                \in {BpfClass_JMP, BpfClass_JMP32}
            => HasWiringRule(Fetch(instructions, i))

\* C17: blocks are memoized by start index: a CFG built by get_blocks_tree
\* holds at most one Block object per start index, so that every edge to
\* a start index leads to the same object.
C17_OneBlockPerStart ==
    origin = "tree" =>
        \A a, b \in 1..Len(blocks) :
            blocks[a].start = blocks[b].start => a = b

\* Word k of the file, and bit i of a byte.
WordAt(k) == SubSeq(file, inst_size * (k - 1) + 1, inst_size * k)
BitOf(x, i) == (x \div (2 ^ i)) % 2

\* C18: for every word the decoder accepts, the opcode of the decoded
\* instruction is the low 8 bits of the word (its first byte, the word
\* being little endian) and its class is the number made of the low 3
\* bits of that opcode.
C18_ClassIsLowBits ==
    (pc # "file" /\ read_err = "none") =>
        \A k \in 1..Len(instructions) :
            /\ instructions[k].opcode = WordAt(k)[1]
            /\ get_class(instructions[k].opcode) =
                  BitOf(WordAt(k)[1], 0) + 2 * BitOf(WordAt(k)[1], 1)
                      + 4 * BitOf(WordAt(k)[1], 2)

\* A word whose opcode has all its bits set, and whose upper bytes are not
\* the opcode, has been decoded.
C18_Witness ==
    /\ pc # "file" /\ read_err = "none"
    /\ \E k \in 1..Len(instructions) :
          /\ instructions[k].opcode = 255 /\ WordAt(k)[8] # 255
          /\ get_class(instructions[k].opcode) = BpfClass_ALU64

\* C19: decoding a word and putting the decoded fields back at their bit
\* positions (off and imm in two's complement) gives the word back, byte
\* for byte; dst and src are 4-bit values, the decoded offset is a signed
\* 16-bit and the decoded immediate a signed 32-bit number.
C19_DecodeEncodeRoundTrip ==
    (pc # "file" /\ read_err = "none") =>
        \A k \in 1..Len(instructions) :
            /\ EncodeWord(instructions[k]) = WordAt(k)
            /\ instructions[k].dst \in 0..15
            /\ instructions[k].src \in 0..15
            /\ instructions[k].off >= 0 - 32768
            /\ instructions[k].off <= 32767
            /\ instructions[k].imm >= 0 - 2147483647 - 1
            /\ instructions[k].imm <= 2147483647

\* A word with the most negative offset and the most negative immediate
\* has been decoded.
C19_Witness ==
    /\ pc # "file" /\ read_err = "none" /\ Len(instructions) = 1
    /\ instructions[1].off = 0 - 32768
    /\ instructions[1].imm = 0 - 2147483647 - 1
    /\ instructions[1].src = 15

\* The number of instructions in a stream of bytes, a wide instruction
\* taking two words; IncompleteStream holds when the stream stops inside a
\* word, or after the first word of a wide instruction.
RECURSIVE InstructionCount(_)
InstructionCount(bytes) ==
    IF Len(bytes) < inst_size THEN 0
    ELSE IF is_wide_instruction(bytes[1])
         THEN 1 + InstructionCount(SubSeq(bytes, 2 * inst_size + 1, Len(bytes)))
         ELSE 1 + InstructionCount(SubSeq(bytes, inst_size + 1, Len(bytes)))
RECURSIVE IncompleteStream(_)
IncompleteStream(bytes) ==
    IF bytes = <<>> THEN FALSE
    ELSE IF Len(bytes) < inst_size THEN TRUE
    ELSE IF is_wide_instruction(bytes[1])
         THEN \/ Len(bytes) < 2 * inst_size
              \/ IncompleteStream(SubSeq(bytes, 2 * inst_size + 1, Len(bytes)))
         ELSE IncompleteStream(SubSeq(bytes, inst_size + 1, Len(bytes)))

\* C20: decoding yields one record per instruction, the second word of a
\* wide instruction (LD/ST class, mode IMM) belonging to the record of the
\* first and not being a record of its own; a stream that ends before a
\* word, or the second word of a wide instruction, is complete makes
\* decoding fail.
C20_WideIsOneRecord ==
    pc # "file" =>
        /\ read_err = "none" => Len(instructions) = InstructionCount(file)
        /\ IncompleteStream(file) => read_err # "none"

\* The instruction indices of the blocks of a path, block after block.
RECURSIVE PathIndices(_)
PathIndices(path) ==
    IF path = <<>> THEN <<>>
    ELSE [n \in 1..(blocks[Head(path)].end - blocks[Head(path)].start + 1) |->
             blocks[Head(path)].start + n - 1] \o PathIndices(Tail(path))

\* A helper call: CALL by static id (src = 0); and the places of a path
\* that call a helper other than the three map helpers.
IsHelperCall(ins) == ins.opcode = OP_CALL /\ ins.src = 0
MapHelperIds ==
    {BPF_FUNC_map_lookup_elem, BPF_FUNC_map_update_elem,
     BPF_FUNC_map_delete_elem}
OtherHelperCalls(path) ==
    {n \in 1..Len(PathIndices(path)) :
        /\ IsHelperCall(Fetch(instructions, PathIndices(path)[n]))
        /\ Fetch(instructions, PathIndices(path)[n]).imm \notin MapHelperIds}

\* C21: on a completed path every call of helper 1, 2 or 3 is recorded as a
\* memory access of category map, and every call of another helper adds a
\* flat 100 cycles to the cost of the path (helper 6 after MOV R0,1, then
\* EXIT: 4 + 100 + 2) and leaves R0 unknown.
C21_HelperCallCost ==
    /\ \A k \in 1..Len(completed) :
          LET c == completed[k] IN
          /\ \A n \in 1..Len(PathIndices(c.path)) :
                LET i == PathIndices(c.path)[n] IN
                (IsHelperCall(Fetch(instructions, i))
                    /\ Fetch(instructions, i).imm \in MapHelperIds)
                => \E m \in 1..Len(c.mem) :
                      c.mem[m].idx = i /\ c.mem[m].type = "map"
          /\ c.total = PathCost(instructions, blocks, c.path) + c.dram
                          + 100 * Cardinality(OtherHelperCalls(c.path))
    /\ (instructions = P_Helper6 /\ MemReturned) =>
          /\ mem_result = 4 + 100 + 2
          /\ RegGet(completed[1].st, 0) = make_unknown

\* An atomic operation of the catalog: STX | ATOMIC on a word or a double
\* word, the low byte of imm being ADD, AND, OR or XOR with or without
\* FETCH, XCHG or CMPXCHG.
IsAtomic(ins) ==
    /\ ins.opcode \in {OP_STX_ATOMIC_W, OP_STX_ATOMIC_W - BpfSize_W + 24}
    /\ ins.imm % 256 \in {0, 1, 2, 3, 14, 15, 16, 17, 18, 19}

\* C22: the catalog entry an atomic STX instruction is costed with is the
\* one whose key is the opcode together with the low byte of imm (shifted
\* past the opcode byte), and the instruction is charged the 8 cycles of
\* that entry: XCHG on [R10-8]; EXIT is costed 8 + 2 as ATOMIC_XCHG_W.
C22_AtomicEntryByImm ==
    /\ \A k \in 1..Len(instructions) :
          IsAtomic(instructions[k]) =>
              /\ opinfo_for(instructions[k]) =
                    Get(BPF_INFO, instructions[k].opcode
                                    + 256 * (instructions[k].imm % 256))
              /\ InstrLatency(instructions[k]) = 8
    /\ (instructions = P_AtomicXchg /\ MemReturned) =>
          mem_result = 8 + 2 /\ plain_result = 8 + 2

\* The per-path state a call of dfs() on the n-th active block was given:
\* the initial state for the entry block, what the parent's scan left
\* for the others.
FrameInput(n) ==
    IF n = 1 THEN [st |-> init_state, z3_regs |-> (10 :> IntSym("fp"))]
    ELSE [st |-> mstack[n - 1].st, z3_regs |-> mstack[n - 1].z3_regs]

\* The assertions the n-th active block contributes: those of its scan.
BlockAssertions(n) ==
    scan_block(instructions, blocks[mstack[n].block].start,
               blocks[mstack[n].block].end,
               FrameInput(n).st, FrameInput(n).z3_regs).added

\* The branch decision of the n-th active block that is being explored:
\* the condition of the last recursive call it made.
BranchDecision(n) ==
    LET f == mstack[n]
        b == blocks[f.block]
        t == Fetch(instructions, b.end)
        plan == BranchPlan(b.next, opinfo_for(t),
                           branch_cond_z3(b.end, t, opinfo_for(t), f.z3_regs))
    IN  plan.todo[Len(plan.todo) - Len(f.todo)].guard

\* The scopes the current DFS path accounts for, outermost first: for each
\* active block its own assertions, then the branch decision under
\* exploration if there is one, then the query of the cache model if one
\* is being checked.
RECURSIVE PathScopes(_)
PathScopes(n) ==
    IF n = 0 THEN <<>>
    ELSE LET f == mstack[n]
         IN  PathScopes(n - 1) \o <<BlockAssertions(n)>>
             \o (IF f.phase = "branch" /\ f.open
                 THEN <<BranchDecision(n)>> ELSE <<>>)
             \o (IF f.phase = "check"
                 THEN <<<<FarAssertion(f.mem[f.q[1] + 1].z3_addr,
                                       f.mem[f.q[2] + 1].z3_addr,
                                       NEAR_DELTA)>>>>
                 ELSE <<>>)

\* C23: whenever a block is visited and whenever the cache queries of a
\* leaf run (and at every other moment of an exploration no exception has
\* interrupted), the shared solver holds exactly the assertions of the
\* blocks and of the branch decisions on the current DFS path, scope by
\* scope, plus the one assertion of the query being checked; nothing a
\* finished sibling branch added is left.
C23_SolverMirrorsPath ==
    (pc = "mem" /\ exc = "none") => solver = PathScopes(Len(mstack))

\* The not-taken successor of a conditional jump is about to be visited
\* after the taken one was explored to its leaf and had added assertions
\* of its own.
C23_Witness ==
    /\ pc = "mem" /\ exc = "none"
    /\ mcall # <<>>
    /\ Len(mstack) = 1
    /\ mstack[1].open
    /\ mstack[1].todo = <<>>
    /\ Len(completed) >= 1
    /\ \E c \in 1..Len(completed[1].constraints) :
          \A a \in 1..Len(Flatten(solver)) :
              Flatten(solver)[a] # completed[1].constraints[c]

\* The memory-access list the n-th active block works with before the
\* cache model has written to it: the accesses of the blocks on the path,
\* in path order, each as its scan made it.
RECURSIVE PathAccesses(_)
PathAccesses(n) ==
    IF n = 0 THEN <<>>
    ELSE PathAccesses(n - 1)
         \o scan_block(instructions, blocks[mstack[n].block].start,
                       blocks[mstack[n].block].end,
                       FrameInput(n).st, FrameInput(n).z3_regs).mem

\* A memory-access list without what the cache model wrote into it.
WithoutDram(mem) == [k \in 1..Len(mem) |-> [mem[k] EXCEPT !.dram_added = 0]]

BeforeTerminator(n) ==
    scan_block(instructions, blocks[mstack[n].block].start,
               blocks[mstack[n].block].end - 1,
               FrameInput(n).st, FrameInput(n).z3_regs).z3_regs

\* C25: the condition of a conditional jump compares the value its dst
\* register held immediately before the jump (the latest definition on the
\* path) with the immediate (K form) or with the value src held before the
\* jump (X form), and the jump redefines neither operand.
C25_CondOnValuesBeforeJump ==
    (pc = "mem" /\ exc = "none") =>
        \A n \in 1..Len(mstack) :
            LET f == mstack[n]
                idx == blocks[f.block].end
                ins == Fetch(instructions, idx)
                opinfo == opinfo_for(ins)
                cond == branch_cond_z3(idx, ins, opinfo, f.z3_regs)
            IN  (f.phase = "branch" /\ cond # <<>>) =>
                    /\ cond = branch_cond_z3(idx, ins, opinfo, BeforeTerminator(n))
                    /\ reg_z3(f.z3_regs, ins.dst, idx + 1)
                          = reg_z3(BeforeTerminator(n), ins.dst, idx)
                    /\ opinfo.name \notin KNames =>
                          reg_z3(f.z3_regs, ins.src, idx + 1)
                             = reg_z3(BeforeTerminator(n), ins.src, idx)

\* The scan of the n-th active block as it stands before instruction k.
ScanBefore(n, k) ==
    scan_block(instructions, blocks[mstack[n].block].start, k - 1,
               FrameInput(n).st, FrameInput(n).z3_regs)

\* C26: a store in a memory mode other than ABS and IND has the address
\* expression R[dst] + off, R[dst] being the value the base register held
\* before the store, and leaves the symbolic value of every register, the
\* base register included, as it was; two stores through the same
\* unmodified base register with the same offset therefore have equal
\* address expressions.
C26_StoreKeepsRegisters ==
    (pc = "mem" /\ exc = "none") =>
        \A n \in 1..Len(mstack) :
            \A k \in blocks[mstack[n].block].start..blocks[mstack[n].block].end :
                LET ins == Fetch(instructions, k)
                    pre == ScanBefore(n, k)
                    post == ScanStep(instructions, k, pre)
                IN  (opinfo_for(ins) # NoOpInfo
                     /\ opinfo_for(ins).name \in StoreMemNames) =>
                        /\ post.st = pre.st
                        /\ post.z3_regs = pre.z3_regs
                        /\ RegGet(pre.st, ins.dst).type = "ptr" =>
                              post.mem[Len(post.mem)].z3_addr =
                                  Add(reg_z3(pre.z3_regs, ins.dst, k),
                                      IntVal(ins.off))

\* C27: widen_instruction(more) sets reserved to bits 32..63 of the second
\* word, shifted down to a 32-bit value, and next_imm to bits 0..31 of that
\* word: the two fields come from disjoint halves of the word.
C27_WidenSplitsSecondWord ==
    (pc = "widened" /\ wide.raised = "none") =>
        /\ wide.reserved = <<to_int(more)[3], to_int(more)[4], 0, 0>>
        /\ wide.next_imm = <<to_int(more)[1], to_int(more)[2], 0, 0>>

\* The places of the program that hold a helper call: CALL | K | JMP with
\* src 0 (static id) or src 2 (BTF id).
HelperCallPlaces ==
    {k \in 0..(Len(instructions) - 1) :
        /\ Fetch(instructions, k).opcode = OP_CALL
        /\ Fetch(instructions, k).src \in {0, 2}}

\* A set of block ranges in which the call at k is inside a block that
\* goes on past it: no block ends at k, and k + 1 starts a block only as
\* the target of a jump.
CallInsideBlock(ranges, k) ==
    /\ \A r \in ranges : r[2] # k
    /\ k + 1 \notin JumpTargets(instructions) => \A r \in ranges : r[1] # k + 1

\* C28: a helper call (CALL | K | JMP with src 0 or 2) does not end a basic
\* block, in the blocks of get_blocks_tree and in those of get_blocks_scan:
\* the block holding it continues past the call to the next terminator,
\* the call makes no leader, and the successors of that block are those of
\* its terminator.
C28_HelperCallInsideBlock ==
    \A k \in HelperCallPlaces :
        /\ (origin = "tree" /\ build_err = "none") =>
              /\ CallInsideBlock(TreeRanges, k)
              /\ \A n \in DOMAIN blocks :
                    (blocks[n].start <= k /\ k <= blocks[n].end) =>
                        /\ blocks[n].end > k
                        /\ Fetch(instructions, blocks[n].end).opcode = OP_EXIT
                              => blocks[n].next = <<>>
        /\ scan.err = "none" => CallInsideBlock(ScanRanges, k)

\* The start indices are pairwise distinct along every chain of successor
\* edges that leaves block n, given those of the blocks above it.
RECURSIVE ChainsDistinct(_, _)
ChainsDistinct(n, above) ==
    /\ blocks[n].start \notin above
    /\ \A j \in 1..Len(blocks[n].next) :
          ChainsDistinct(blocks[n].next[j], above \cup {blocks[n].start})

\* Every block but the entry block is the successor of exactly one block,
\* once; the entry block is the successor of none.
OneParentEach ==
    \A n \in DOMAIN blocks :
        Cardinality({e \in {<<m, j>> : m \in DOMAIN blocks, j \in 1..2} :
                        /\ e[2] <= Len(blocks[e[1]].next)
                        /\ blocks[e[1]].next[e[2]] = n})
            = IF n = first_block THEN 0 ELSE 1

\* C29: every block structure get_blocks_tree returns is a finite tree:
\* along any chain of successor edges from the entry block the block start
\* indices are pairwise distinct, so no block is reachable from itself,
\* and dfs_blocks never takes its back-edge branch on such a CFG.
C29_TreeHasNoBackEdge ==
    (origin = "tree" /\ build_err = "none") =>
        /\ ChainsDistinct(first_block, {})
        /\ OneParentEach
        /\ \A n \in DOMAIN blocks : Len(blocks[n].next) <= 2
        /\ backedges = <<>>

\* dfs_blocks has returned on a tree in which two blocks of different
\* chains start at the same instruction.
C29_Witness ==
    /\ origin = "tree" /\ build_err = "none"
    /\ PlainReturned
    /\ Len(blocks) >= 4
    /\ \E m, n \in DOMAIN blocks : m # n /\ blocks[m].start = blocks[n].start
    /\ backedges = <<>>

\* The program holds no memory access and no helper call: no instruction
\* is a load or a store of any class, an atomic operation, or a CALL that
\* is not a call of a local function.
NoMemoryNoHelper ==
    \A k \in 1..Len(instructions) :
        /\ get_class(instructions[k].opcode)
              \notin {BpfClass_LD, BpfClass_LDX, BpfClass_ST, BpfClass_STX}
        /\ instructions[k].opcode = OP_CALL => instructions[k].src = 1

\* C30: on an acyclic CFG whose instructions hold no memory access and no
\* helper call, dfs_blocks_with_mem and dfs_blocks, run with the same
\* latency table, report the same bound.
C30_ExplorersAgree ==
    (pc = "done" /\ Built_ok /\ origin = "tree" /\ NoMemoryNoHelper) =>
        /\ exc = "none"
        /\ mem_result = plain_result


====
